---- MODULE Spec2Model ----
(***************************************************************************)
(* Model of the openrgb-rs protocol session layer: packet framing, version *)
(* negotiation, the session lock and the request/response exchange.        *)
(*                                                                         *)
(* The repository holds two generations of the session layer; the model    *)
(* covers both, stream_kind says which one a behaviour runs:               *)
(*   "Stream2"            OpenRgbProtocol of src/protocol/mod.rs over the  *)
(*                        buffered stream of src/protocol/stream2.rs       *)
(*                        (SerToBuf / DeserFromBuf codecs)                 *)
(*   "ProtocolTcpStream"  OpenRgbProtocol<S> of src/protocol/client.rs     *)
(*                        over the stream of src/protocol/stream.rs, which *)
(*                        reads and writes values on the socket            *)
(*                        (Writable / TryFromStream codecs)                *)
(* Bytes are integers 0..255, strings are sequences of bytes.              *)
(***************************************************************************)
EXTENDS Integers, Sequences, FiniteSets, TLC

\* ------------------------------------------------------------------------
\* Bounds of the model
\* ------------------------------------------------------------------------
\* number of concurrent callers sharing a session on which they call
\* again and again
NumCallers == 3
\* number of concurrent callers sharing a session on which each calls
\* MaxCalls times
SharedCallers == 2
\* number of operations each caller may issue
MaxCalls == 1
\* highest protocol version a server advertises
MaxServerVersion == 6
\* the longest encoding that is handed to a decoder cut short
MaxSliceLen == 128
\* the number of commands added to one UpdateLedCommand
MaxCommands == 3

\* ------------------------------------------------------------------------
\* Program constants
\* ------------------------------------------------------------------------
\* DEFAULT_PROTOCOL of mod.rs and of client.rs
DEFAULT_PROTOCOL == 5
CLIENT_DEFAULT_PROTOCOL == 4
NO_DEVICE_ID == 0
HEADER_SIZE == 16

\* the positions in a packet up to which the bytes may arrive ahead of the
\* rest: inside the magic, inside the header, the header, inside the payload
ArrivalCuts == {2, 10, 16, 18}
\* the largest allocations, in MiB, a machine may serve: 4 MiB, 12 GiB and
\* 128 TiB (an address space of 47 bits with nothing to hold it back)
AllocMiB == {4, 12288, 134217728}
MAGIC == <<79, 82, 71, 66>>

\* PacketId discriminants
RequestControllerCount == 0
RequestControllerData == 1
RequestProtocolVersion == 40
SetClientName == 50
DeviceListUpdated == 100
RequestDeviceRescan == 140
RequestProfileList == 150
RequestSaveProfile == 151
RequestLoadProfile == 152
RequestDeleteProfile == 153
RequestPluginList == 200
PluginSpecific == 201
RGBControllerResizeZone == 1000
RgbControllerClearSegments == 1001
RGBControllerAddSegment == 1002
RGBControllerUpdateLeds == 1050
RGBControllerUpdateZoneLeds == 1051
RGBControllerUpdateSingleLed == 1052
RGBControllerSetCustomMode == 1100
RGBControllerUpdateMode == 1101
RGBControllerSaveMode == 1102

\* the discriminants impl_enum_discriminant! declares for PacketId: the
\* enum of packet.rs has no RequestDeviceRescan, RequestPluginList and
\* PluginSpecific, the variants mod.rs names
PacketIdValues ==
    { RequestControllerCount, RequestControllerData, RequestProtocolVersion,
      SetClientName, DeviceListUpdated,
      RequestProfileList, RequestSaveProfile, RequestLoadProfile,
      RequestDeleteProfile,
      RGBControllerResizeZone, RgbControllerClearSegments,
      RGBControllerAddSegment, RGBControllerUpdateLeds,
      RGBControllerUpdateZoneLeds, RGBControllerUpdateSingleLed,
      RGBControllerSetCustomMode, RGBControllerUpdateMode,
      RGBControllerSaveMode }

\* ------------------------------------------------------------------------
\* State
\* ------------------------------------------------------------------------
\* Process 0 is the connect procedure (connect_to / new); processes
\* 1..NumCallers are the callers that share the negotiated session.
Callers == 1..NumCallers
Procs == 0..NumCallers

VARIABLES
    stream_kind,      \* "Stream2" | "ProtocolTcpStream"
    debug_assertions, \* cfg(debug_assertions) of the build (stream.rs write path)
    server_version,   \* the protocol version the server advertises
    alloc_mib,        \* the largest allocation, in MiB, the allocator of
                      \* the machine serves
    alive,            \* the transport works
    eof,              \* the server has closed its sending side
    session,          \* "Connecting" | "Negotiated" | "Failed"
    protocol_id,      \* OpenRgbProtocol.protocol_id (NONE: no session value)
    stream_version,   \* the protocol_version field of the stream
    lock_owner,       \* holder of the session Mutex, 0: free
    waiters,          \* callers queued on the Mutex, in arrival order
    pc,               \* position of each process
    op,               \* operation each process runs
    res,              \* result of the last operation of each process
    hdr_len,          \* payload length of the header a process has read
    wrote,            \* bytes a process wrote during its operation
    nread,            \* number of bytes a process read during its operation
    calls,            \* operations a caller has started
    net,              \* the packets sent by the server that have not arrived
                      \* whole: of each, the bytes still on their way and
                      \* the number of those that have arrived
    rx,               \* bytes that have arrived and are not yet read
    inbuf,            \* bytes the pending read of a process has taken off
                      \* the transport so far
    packets,          \* how net and rx divide into packets: what is left of each,
                      \* and whether the first one has been begun
    requests,         \* request packets the server has not answered
    abandoned_at,     \* position at which a caller dropped its call ("": never)
    orphan_unread,    \* the caller dropped a request after writing it and
                      \* nothing has been read from the transport since
    scenario,         \* "single": one caller, every operation;
                      \* "shared": SharedCallers callers, one operation of
                      \*           SharedOps each;
                      \* "progress": all callers, operations of SharedOps
                      \*           without end;
                      \* "codec":  no session, a codec is applied to a value
                      \* "command": no session, an UpdateLedCommand is built
    codec,            \* the value, the bytes and the results of the codec
                      \* under test (NoCodec in a session)
    command           \* the UpdateLedCommand under construction (NoCommand
                      \* elsewhere)

vars == <<stream_kind, debug_assertions, server_version, alloc_mib, alive, eof, session,
          protocol_id, stream_version, lock_owner, waiters, pc, op, res,
          hdr_len, wrote, nread, calls, net, rx, inbuf, packets, requests,
          abandoned_at, orphan_unread, scenario, codec, command>>

config == <<stream_kind, debug_assertions, server_version, alloc_mib,
           scenario>>

\* ------------------------------------------------------------------------
\* Byte helpers
\* ------------------------------------------------------------------------
Pow256(i) == CASE i = 0 -> 1 [] i = 1 -> 256 [] i = 2 -> 65536
               [] OTHER -> 16777216

U16_MOD == 65536

\* value.to_le_bytes() for a w-byte unsigned integer.  The model checker's
\* integers end at 2^31 - 1, so every u32 of the model is below 2^31 and a
\* cast to u32 leaves it as it is.
LE(n, w) == [i \in 1..w |-> (n \div Pow256(i - 1)) % 256]

\* i32::to_le_bytes: two's complement
LEI32(x) == IF x >= 0 THEN LE(x, 4)
            ELSE [i \in 1..4 |-> 255 - LE(-(x + 1), 4)[i]]

\* uN::from_le_bytes
FromLE(b) ==
    LET RECURSIVE Acc(_)
        Acc(i) == IF i > Len(b) THEN 0 ELSE b[i] * Pow256(i - 1) + Acc(i + 1)
    IN Acc(1)

Min(a, b) == IF a < b THEN a ELSE b

Take(s, n) == SubSeq(s, 1, Min(n, Len(s)))
Drop(s, n) == SubSeq(s, Min(n, Len(s)) + 1, Len(s))

\* ------------------------------------------------------------------------
\* Encoders.  v is the protocol version of the buffer or stream written to.
\* An encoder yields
\*   ok     the encoder returned Ok
\*   bytes  the bytes it wrote (up to the error, if any)
\*   size   what Writable::size() gives for the value (Writable codecs)
\*   panic  the assertion of WritableStream::write_value failed
\* ------------------------------------------------------------------------
EncRes(ok, bytes, size, panic) ==
    [ok |-> ok, bytes |-> bytes, size |-> size, panic |-> panic]

\* SerToBuf: the value goes into a WriteMessage, an error leaves nothing
Enc(b) == EncRes(TRUE, b, Len(b), FALSE)
EncErr == EncRes(FALSE, <<>>, 0, FALSE)

\* tuples: fields concatenated in order, the first error aborts
EncCat(a, b) == IF a.ok /\ b.ok THEN Enc(a.bytes \o b.bytes) ELSE EncErr

SerUnit == Enc(<<>>)
SerU32(x) == Enc(LE(x, 4))
SerI32(x) == Enc(LEI32(x))
SerPacketId(id) == Enc(LE(id, 4))
\* variant: no terminator
SerRawStringUnterminated(s) == Enc(s)
\* RawString: the bytes of the string and a 0 byte
SerRawString(s) == Enc(s \o <<0>>)
\* variant: the count leaves out the terminator
SerStrUncounted(s) == EncCat(Enc(LE(Len(s) % U16_MOD, 2)), SerRawString(s))
\* &str: (len as u16) + 1, then the RawString
SerStr(s) == EncCat(Enc(LE(((Len(s) % U16_MOD) + 1) % U16_MOD, 2)), SerRawString(s))
SerColor(c) == Enc(<<c.r, c.g, c.b, 0>>)

SerColors(cs) ==
    LET RECURSIVE Body(_)
        Body(i) == IF i > Len(cs) THEN <<>> ELSE SerColor(cs[i]).bytes \o Body(i + 1)
    IN Enc(LE(Len(cs) % U16_MOD, 2) \o Body(1))

SerSegmentData(seg, v) ==
    IF v < 4 THEN EncErr
    ELSE EncCat(SerStr(seg.name),
         EncCat(SerI32(seg.seg_type),
         EncCat(SerU32(seg.start_idx), SerU32(seg.led_count))))

\* OpenRgbPacket: u32 (inner length + 4) followed by the inner bytes
SerOpenRgbPacketInnerLength(inner) ==
    IF inner.ok
    THEN Enc(LE(Len(inner.bytes), 4) \o inner.bytes)
    ELSE EncErr

SerOpenRgbPacket(inner) ==
    IF inner.ok
    THEN Enc(LE(Len(inner.bytes) + 4, 4) \o inner.bytes)
    ELSE EncErr

\* ------------------------------------------------------------------------
\* Encoders of the Writable codecs (stream.rs generation).  The value is
\* written field by field to the stream; an error or a failed assertion
\* leaves the bytes written before it on the stream.
\* ------------------------------------------------------------------------
\* tuples: the fields are written in order, the first failure stops
WCat(a, b) ==
    IF ~a.ok \/ a.panic
    THEN EncRes(a.ok, a.bytes, a.size + b.size, a.panic)
    ELSE EncRes(b.ok, a.bytes \o b.bytes, a.size + b.size, b.panic)

WUnit == EncRes(TRUE, <<>>, 0, FALSE)
WU8(x) == EncRes(TRUE, <<x>>, 1, FALSE)
WU16(x) == EncRes(TRUE, LE(x, 2), 2, FALSE)
WU32(x) == EncRes(TRUE, LE(x, 4), 4, FALSE)
WI32(x) == EncRes(TRUE, LEI32(x), 4, FALSE)
\* usize goes out as a u32; u32::try_from refuses 2^32 and above
WUsize(x) ==
    IF x \div 65536 >= 65536 THEN EncRes(FALSE, <<>>, 4, FALSE) ELSE WU32(x)
WRawString(s) == EncRes(TRUE, s \o <<0>>, Len(s) + 1, FALSE)
\* &str: (len + 1) as u16, then the RawString
WStr(s) == WCat(WU16((Len(s) + 1) % U16_MOD), WRawString(s))
WColor(c) == WCat(WU8(c.r), WCat(WU8(c.g), WCat(WU8(c.b), WU8(0))))

\* &[Color]: u16::try_from(len), then the elements
WSlice(cs) ==
    LET RECURSIVE Body(_)
        Body(i) == IF i > Len(cs) THEN WUnit ELSE WCat(WColor(cs[i]), Body(i + 1))
    IN IF Len(cs) >= U16_MOD THEN EncRes(FALSE, <<>>, 2 + Body(1).size, FALSE)
       ELSE WCat(WU16(Len(cs)), Body(1))

WSegmentData(seg, v) ==
    LET w == WCat(WStr(seg.name),
             WCat(WI32(seg.seg_type),
             WCat(WU32(seg.start_idx), WU32(seg.led_count))))
    IN IF v < 4 THEN EncRes(FALSE, <<>>, w.size, FALSE) ELSE w

\* ------------------------------------------------------------------------
\* Packet header
\* ------------------------------------------------------------------------
\* OpenRgbMessageHeader::write / WritableStream::write_header
HeaderBytes(device_id, packet_id, packet_size) ==
    MAGIC \o LE(device_id, 4) \o SerPacketId(packet_id).bytes
          \o LE(packet_size, 4)

\* PacketId::try_from
PacketIdTryFrom(raw) == raw \in PacketIdValues

\* Outcome of reading a header from the bytes available on the transport.
\*   st   "ok" | "bad" (ProtocolError) | "short" (more bytes are needed)
\*   used bytes consumed from the transport
\*   len  the payload length field
HdrRes(st, used, len) == [st |-> st, used |-> used, len |-> len]

\* variant: the device id of the header is not compared
Stream2ReadHeaderAnyDevice(avail, device_id, packet_id) ==
    IF Len(avail) < HEADER_SIZE THEN HdrRes("short", Len(avail), 0)
    ELSE LET magic == SubSeq(avail, 1, 4)
             pid   == FromLE(SubSeq(avail, 9, 12))
             size  == FromLE(SubSeq(avail, 13, 16))
         IN IF magic # MAGIC THEN HdrRes("bad", HEADER_SIZE, 0)
            ELSE IF ~PacketIdTryFrom(pid) THEN HdrRes("bad", HEADER_SIZE, 0)
            ELSE IF pid # packet_id THEN HdrRes("bad", HEADER_SIZE, 0)
            ELSE HdrRes("ok", HEADER_SIZE, size)

\* Stream2::read_header over OpenRgbMessageHeader::read: the 16 bytes are
\* read at once, then magic, packet id and device id are checked.
Stream2ReadHeader(avail, device_id, packet_id) ==
    IF Len(avail) < HEADER_SIZE THEN HdrRes("short", Len(avail), 0)
    ELSE LET magic == SubSeq(avail, 1, 4)
             dev   == FromLE(SubSeq(avail, 5, 8))
             pid   == FromLE(SubSeq(avail, 9, 12))
             size  == FromLE(SubSeq(avail, 13, 16))
         IN IF magic # MAGIC THEN HdrRes("bad", HEADER_SIZE, 0)
            ELSE IF ~PacketIdTryFrom(pid) THEN HdrRes("bad", HEADER_SIZE, 0)
            ELSE IF pid # packet_id THEN HdrRes("bad", HEADER_SIZE, 0)
            ELSE IF dev # device_id THEN HdrRes("bad", HEADER_SIZE, 0)
            ELSE HdrRes("ok", HEADER_SIZE, size)

\* index of the first magic byte that differs (0: all four available bytes
\* match), looking at no more than the available bytes
FirstMagicMismatch(avail) ==
    LET RECURSIVE Scan(_)
        Scan(i) == IF i > 4 \/ i > Len(avail) THEN 0
                   ELSE IF avail[i] # MAGIC[i] THEN i ELSE Scan(i + 1)
    IN Scan(1)

\* ReadableStream::read_header: the fields are read one after the other
\* from the socket and the first mismatch returns at once.
StreamReadHeader(avail, device_id, packet_id) ==
    LET bad == FirstMagicMismatch(avail)
    IN IF bad # 0 THEN HdrRes("bad", bad, 0)
       ELSE IF Len(avail) < 8 THEN HdrRes("short", Len(avail), 0)
       ELSE IF FromLE(SubSeq(avail, 5, 8)) # device_id THEN HdrRes("bad", 8, 0)
       ELSE IF Len(avail) < 12 THEN HdrRes("short", Len(avail), 0)
       ELSE IF ~PacketIdTryFrom(FromLE(SubSeq(avail, 9, 12))) THEN HdrRes("bad", 12, 0)
       ELSE IF FromLE(SubSeq(avail, 9, 12)) # packet_id THEN HdrRes("bad", 12, 0)
       ELSE IF Len(avail) < HEADER_SIZE THEN HdrRes("short", Len(avail), 0)
       ELSE HdrRes("ok", HEADER_SIZE, FromLE(SubSeq(avail, 13, 16)))

\* ------------------------------------------------------------------------
\* Decoders.  A decoder works on the bytes in front of it and yields
\*   st    "ok" | "bad" (ProtocolError) | "short" (the bytes ran out in
\*         front of a number) | "eof" (the bytes ran out inside the bytes
\*         of a string, which read_exact fills) | "panic" (the task
\*         panics) | "abort" (the process ends: an allocation failed)
\*   val   the decoded value
\*   used  the number of bytes consumed: the advance of the cursor of a
\*         ReceivedMessage
\* On a ReceivedMessage "short" is a ProtocolError and "eof" the io error
\* UnexpectedEof of read_exact; on a stream that has ended both are io
\* errors; on a socket both are a read that waits for more bytes.
\* ------------------------------------------------------------------------
DecRes(st, val, used) == [st |-> st, val |-> val, used |-> used]

\* ReceivedMessage::read_u16 / read_u16_le
DecU16(b) == IF Len(b) < 2 THEN DecRes("short", 0, 0)
             ELSE DecRes("ok", FromLE(SubSeq(b, 1, 2)), 2)

\* ReceivedMessage::read_u32 / read_u32_le
DecU32(b) == IF Len(b) < 4 THEN DecRes("short", 0, 0)
             ELSE DecRes("ok", FromLE(SubSeq(b, 1, 4)), 4)

\* String::from_utf8: well-formed UTF-8 (RFC 3629)
IsCont(x) == x >= 128 /\ x <= 191

RECURSIVE Utf8Valid(_)
Utf8Valid(b) ==
    IF Len(b) = 0 THEN TRUE
    ELSE LET c == b[1] n == Len(b)
         IN IF c < 128 THEN Utf8Valid(Drop(b, 1))
            ELSE IF c >= 194 /\ c <= 223
                 THEN n >= 2 /\ IsCont(b[2]) /\ Utf8Valid(Drop(b, 2))
            ELSE IF c >= 224 /\ c <= 239
                 THEN /\ n >= 3 /\ IsCont(b[2]) /\ IsCont(b[3])
                      /\ (c = 224 => b[2] >= 160)
                      /\ (c = 237 => b[2] <= 159)
                      /\ Utf8Valid(Drop(b, 3))
            ELSE IF c >= 240 /\ c <= 244
                 THEN /\ n >= 4 /\ IsCont(b[2]) /\ IsCont(b[3]) /\ IsCont(b[4])
                      /\ (c = 240 => b[2] >= 144)
                      /\ (c = 244 => b[2] <= 143)
                      /\ Utf8Valid(Drop(b, 4))
            ELSE FALSE

\* the element of a one-element set; { e(x) : x \in {v} } is e with x
\* bound to the value of v (a `let x = v;` evaluated once)
The(S) == CHOOSE r \in S : TRUE

\* Vec::<T>::with_capacity(n) and vec![0u8; n] ask the allocator for
\* n * size_of::<T>() bytes before an element is read; when the allocator
\* does not serve them the process aborts (handle_alloc_error).  What it
\* serves depends on the machine: alloc_mib MiB, one of AllocMiB.
\* size_of::<T>() is that of a 64-bit target: a String is three words, a
\* struct its fields rounded up to its alignment.
VecAllocationFails(t, n) ==
    LET size_of == CASE t = "u8"          -> 1
                     [] t = "Color"       -> 3
                     [] t = "String"      -> 24
                     [] t = "Led"         -> 32
                     [] t = "SegmentData" -> 40
                     [] t = "PluginData"  -> 80
                     [] t = "ZoneData"    -> 120
                     [] t = "ModeData"    -> 136
        bytes == n * size_of
    IN (bytes \div 1048576) + (IF bytes % 1048576 = 0 THEN 0 ELSE 1) > alloc_mib

\* String: u16 count, that many bytes, the last one dropped, then UTF-8
DecString(b) ==
    The({ IF n.st # "ok" THEN DecRes("short", <<>>, n.used)
          ELSE IF Len(b) < 2 + n.val THEN DecRes("eof", <<>>, Len(b))
          ELSE The({ IF Utf8Valid(str) THEN DecRes("ok", str, 2 + n.val)
                     ELSE DecRes("bad", <<>>, 2 + n.val)
                     : str \in { IF n.val = 0 THEN <<>>
                                 ELSE SubSeq(b, 3, 1 + n.val) } })
          : n \in { DecU16(b) } })

\* read n consecutive strings (the body of Vec<String>)
RECURSIVE DecStrings(_, _)
DecStrings(b, n) ==
    IF n = 0 THEN DecRes("ok", <<>>, 0)
    ELSE The({ IF h.st # "ok" THEN DecRes(h.st, <<>>, h.used)
               ELSE The({ DecRes(t.st,
                                 IF t.st = "ok" THEN <<h.val>> \o t.val ELSE <<>>,
                                 h.used + t.used)
                          : t \in { DecStrings(Drop(b, h.used), n - 1) } })
               : h \in { DecString(b) } })

\* Vec<String>: u16 count followed by the elements
DecVecString(b) ==
    The({ IF n.st # "ok" THEN n
          ELSE IF VecAllocationFails("String", n.val)
          THEN DecRes("abort", <<>>, 2)
          ELSE The({ DecRes(t.st, t.val, 2 + t.used)
                     : t \in { DecStrings(Drop(b, 2), n.val) } })
          : n \in { DecU16(b) } })

\* (u32, Vec<String>): the reply to RequestProfileList
DecProfiles(b) ==
    The({ IF a.st # "ok" THEN DecRes(a.st, <<>>, a.used)
          ELSE The({ DecRes(t.st, t.val, 4 + t.used)
                     : t \in { DecVecString(Drop(b, 4)) } })
          : a \in { DecU32(b) } })

\* PluginData: name, description, version, index, plugin_protocol_version
DecPluginData(b) ==
    The({ IF s.st # "ok" THEN s
          ELSE The({ IF i.st # "ok" THEN DecRes(i.st, <<>>, s.used + i.used)
                     ELSE IF v.st # "ok" THEN DecRes(v.st, <<>>, s.used + 4 + v.used)
                     ELSE DecRes("ok", [name |-> s.val[1], description |-> s.val[2],
                                        version |-> s.val[3], index |-> i.val,
                                        plugin_protocol_version |-> v.val],
                                 s.used + 8)
                     : i \in { DecU32(Drop(b, s.used)) },
                       v \in { DecU32(Drop(b, s.used + 4)) } })
          : s \in { DecStrings(b, 3) } })

RECURSIVE DecPluginList(_, _)
DecPluginList(b, n) ==
    IF n = 0 THEN DecRes("ok", <<>>, 0)
    ELSE The({ IF h.st # "ok" THEN DecRes(h.st, <<>>, h.used)
               ELSE The({ DecRes(t.st,
                                 IF t.st = "ok" THEN <<h.val>> \o t.val ELSE <<>>,
                                 h.used + t.used)
                          : t \in { DecPluginList(Drop(b, h.used), n - 1) } })
               : h \in { DecPluginData(b) } })

\* (u32, Vec<PluginData>): the reply to RequestPluginList
DecPlugins(b) ==
    The({ IF a.st # "ok" THEN DecRes(a.st, <<>>, a.used)
          ELSE The({ IF n.st # "ok" THEN DecRes(n.st, <<>>, 4 + n.used)
                     ELSE IF VecAllocationFails("PluginData", n.val)
                     THEN DecRes("abort", <<>>, 6)
                     ELSE The({ DecRes(t.st, t.val, 6 + t.used)
                                : t \in { DecPluginList(Drop(b, 6), n.val) } })
                     : n \in { DecU16(Drop(b, 4)) } })
          : a \in { DecU32(b) } })

\* the decoder of ControllerData and the payload of a controller reply are
\* defined with the codecs of the data types, further down
RECURSIVE DecControllerData(_, _)
RECURSIVE ControllerWire(_, _, _)
RECURSIVE ControllerOfZones(_, _, _, _)
RECURSIVE ControllerHead(_)
RECURSIVE HugeZones(_)

\* the decoder of the reply type an operation expects, v being the
\* protocol version of the stream
Decode(rtype, b, v) ==
    CASE rtype = "u32"        -> DecU32(b)
      [] rtype = "profiles"   -> DecProfiles(b)
      [] rtype = "plugins"    -> DecPlugins(b)
      [] rtype = "controller" -> DecControllerData(b, v)
      [] OTHER                -> DecRes("ok", <<>>, 0)

\* what the operation returns for the decoded reply: get_controller puts
\* the id it asked for into the controller
Reply(o, val) ==
    IF o.rtype = "controller" THEN [val EXCEPT !.id = o.dev] ELSE val

\* ------------------------------------------------------------------------
\* ModeData (Writable for ModeData)
\* ------------------------------------------------------------------------
NONE == -1
\* the largest u32 of the model, standing for u32::MAX (the model's
\* integers end at 2^31 - 1)
U32_MAX == 2147483647
UnwrapOrDefault(x) == IF x = NONE THEN 0 ELSE x

\* write_value_min_version: the value is written from version min on
WriteValueMinVersion(e, min, v) == IF v >= min THEN e ELSE WUnit

\* ModeData::size: the brightness fields count when the protocol_version
\* field of the value is at least 3
SizeModeData(m) ==
    WStr(m.name).size + WI32(m.value).size + WU32(m.flags).size
    + WU32(UnwrapOrDefault(m.speed_min)).size
    + WU32(UnwrapOrDefault(m.speed_max)).size
    + (IF m.protocol_version >= 3
       THEN WU32(UnwrapOrDefault(m.brightness_min)).size
            + WU32(UnwrapOrDefault(m.brightness_max)).size
            + WU32(UnwrapOrDefault(m.brightness)).size
       ELSE 0)
    + WU32(UnwrapOrDefault(m.colors_min)).size
    + WU32(UnwrapOrDefault(m.colors_max)).size
    + WU32(UnwrapOrDefault(m.speed)).size
    + WU32(UnwrapOrDefault(m.direction)).size
    + WU32(UnwrapOrDefault(m.color_mode)).size
    + WSlice(m.colors).size

\* ModeData::try_write: the brightness fields are written when the version
\* of the stream is at least 3
TryWriteModeData(m, v) ==
    WCat(WStr(m.name),
    WCat(WI32(m.value),
    WCat(WU32(m.flags),
    WCat(WU32(UnwrapOrDefault(m.speed_min)),
    WCat(WU32(UnwrapOrDefault(m.speed_max)),
    WCat(WriteValueMinVersion(WU32(UnwrapOrDefault(m.brightness_min)), 3, v),
    WCat(WriteValueMinVersion(WU32(UnwrapOrDefault(m.brightness_max)), 3, v),
    WCat(WriteValueMinVersion(WU32(UnwrapOrDefault(m.brightness)), 3, v),
    WCat(WU32(UnwrapOrDefault(m.colors_min)),
    WCat(WU32(UnwrapOrDefault(m.colors_max)),
    WCat(WU32(UnwrapOrDefault(m.speed)),
    WCat(WU32(UnwrapOrDefault(m.direction)),
    WCat(WU32(UnwrapOrDefault(m.color_mode)),
         WSlice(m.colors))))))))))))))

\* write_value(&mode): try_write, then assert!(n == value.size())
WModeData(m, v) ==
    LET w == TryWriteModeData(m, v)
    IN EncRes(w.ok, w.bytes, SizeModeData(m),
              w.ok /\ Len(w.bytes) # SizeModeData(m))

\* ModeData into a WriteMessage: the same fields in the same order
SerModeData(m, v) ==
    LET w == TryWriteModeData(m, v)
    IN IF w.ok THEN Enc(w.bytes) ELSE EncErr

\* ------------------------------------------------------------------------
\* Sample arguments of the operations
\* ------------------------------------------------------------------------
StrTest == <<116, 101, 115, 116>>
ColorA == [r |-> 37, g |-> 54, b |-> 126]
ColorB == [r |-> 37, g |-> 54, b |-> 255]
\* controller_id, zone_id, plugin_id
IdArgs == [controller |-> 1, zone |-> 2, plugin |-> 3]
ControllerArg == IdArgs.controller
ZoneArg == IdArgs.zone
PluginArg == IdArgs.plugin
SegmentArg == [name |-> StrTest, seg_type |-> 1, start_idx |-> 0, led_count |-> 4]
\* mode.protocol_version is the version of the session the mode was read
\* from, or what the caller has put there
ModeArg(protocol_version) ==
           [name |-> StrTest, value |-> 46, flags |-> 31,
            speed_min |-> 10, speed_max |-> 1000, speed |-> 51,
            brightness_min |-> 1, brightness_max |-> 1024, brightness |-> 512,
            colors_min |-> NONE, colors_max |-> NONE,
            direction |-> 4, color_mode |-> 1,
            colors |-> <<ColorA>>, index |-> 0,
            protocol_version |-> protocol_version]

\* ------------------------------------------------------------------------
\* The operations of OpenRgbProtocol.  An operation is described by
\*   name, min  (the version check_protocol_version asks for; 0: no check)
\*   dev, pid   (header fields)
\*   kind       "write" (write_packet) | "request" (request)
\*              | "unimplemented" (the body is unimplemented!())
\*   rtype      the reply type of a request
\*   data       the encoded payload
\* v is the version of the write buffer, id the protocol_id of the session.
\* ------------------------------------------------------------------------
Op(name, min, dev, pid, kind, rtype, data) ==
    [name |-> name, min |-> min, dev |-> dev, pid |-> pid, kind |-> kind,
     rtype |-> rtype, data |-> data]

\* the request of OpenRgbProtocol::new (mod.rs, client.rs)
NegotiateOp(kind) ==
    IF kind = "Stream2"
    THEN Op("negotiate", 0, NO_DEVICE_ID, RequestProtocolVersion, "request", "u32",
            SerU32(DEFAULT_PROTOCOL))
    ELSE Op("negotiate", 0, 0, RequestProtocolVersion, "request", "u32",
            WU32(CLIENT_DEFAULT_PROTOCOL))

\* the operations of mod.rs
Operations(v, id) ==
    { Op("set_name", 0, NO_DEVICE_ID, SetClientName, "write", "none",
         SerRawString(StrTest)),
      Op("get_controller_count", 0, NO_DEVICE_ID, RequestControllerCount,
         "request", "u32", SerUnit),
      Op("get_controller", 0, ControllerArg, RequestControllerData,
         "request", "controller", SerU32(id)),
      Op("set_custom_mode", 0, ControllerArg, RGBControllerSetCustomMode,
         "unimplemented", "none", SerUnit),
      Op("resize_zone", 0, ControllerArg, RGBControllerResizeZone, "write", "none",
         EncCat(SerU32(ZoneArg), SerU32(4))),
      Op("update_led", 0, ControllerArg, RGBControllerUpdateSingleLed, "write", "none",
         EncCat(SerI32(1), SerColor(ColorA))),
      Op("update_leds", 0, ControllerArg, RGBControllerUpdateLeds, "write", "none",
         SerOpenRgbPacket(SerColors(<<ColorA, ColorB>>))),
      Op("update_zone_leds", 0, ControllerArg, RGBControllerUpdateZoneLeds, "write", "none",
         SerOpenRgbPacket(EncCat(SerU32(ZoneArg), SerColors(<<ColorA>>)))),
      Op("update_mode", 0, ControllerArg, RGBControllerUpdateMode, "write", "none",
         SerOpenRgbPacket(EncCat(SerU32(ModeArg(v).index), SerModeData(ModeArg(v), v)))),
      Op("get_profiles", 2, 0, RequestProfileList, "request", "profiles", SerUnit),
      Op("load_profile", 2, 0, RequestLoadProfile, "write", "none",
         SerRawString(StrTest)),
      Op("save_profile", 2, 0, RequestSaveProfile, "write", "none", SerStr(StrTest)),
      Op("delete_profile", 2, 0, RequestDeleteProfile, "write", "none", SerStr(StrTest)),
      Op("save_mode", 3, ControllerArg, RGBControllerSaveMode, "write", "none",
         SerOpenRgbPacket(EncCat(SerU32(ModeArg(v).index), SerModeData(ModeArg(v), v)))),
      Op("get_plugins", 4, NO_DEVICE_ID, RequestPluginList, "request", "plugins",
         SerUnit),
      Op("plugin_specific_command", 4, PluginArg, PluginSpecific, "request", "u32",
         SerU32(7)),
      Op("add_segment", 5, ControllerArg, RGBControllerAddSegment, "write", "none",
         SerOpenRgbPacket(EncCat(SerU32(ZoneArg), SerSegmentData(SegmentArg, v)))),
      Op("clear_segments", 5, ControllerArg, RgbControllerClearSegments, "write", "none",
         SerUnit),
      Op("rescan_devices", 5, NO_DEVICE_ID, RequestDeviceRescan, "write", "none",
         SerUnit) }

\* the operations of client.rs; mpv is the protocol_version field of the
\* mode the caller passes
ClientOperations(v, mpv, id) ==
    LET cs2 == WSlice(<<ColorA, ColorB>>)
        cs1 == WSlice(<<ColorA>>)
        seg == WSegmentData(SegmentArg, v)
        m   == WModeData(ModeArg(mpv), v)
    IN
    { Op("set_name", 0, 0, SetClientName, "write", "none", WRawString(StrTest)),
      Op("get_controller_count", 0, 0, RequestControllerCount, "request", "u32",
         WUnit),
      Op("get_controller", 0, ControllerArg, RequestControllerData, "request",
         "controller", WU32(id)),
      Op("resize_zone", 0, 0, RGBControllerResizeZone, "write", "none",
         WCat(WI32(ZoneArg), WI32(4))),
      Op("update_led", 0, ControllerArg, RGBControllerUpdateSingleLed, "write", "none",
         WCat(WI32(1), WColor(ColorA))),
      Op("update_leds", 0, ControllerArg, RGBControllerUpdateLeds, "write", "none",
         WCat(WUsize(cs2.size + 4), cs2)),
      Op("update_zone_leds", 0, ControllerArg, RGBControllerUpdateZoneLeds, "write",
         "none",
         WCat(WUsize(4 + WU32(ZoneArg).size + cs1.size), WCat(WU32(ZoneArg), cs1))),
      Op("add_segment", 5, ControllerArg, RGBControllerAddSegment, "write", "none",
         WCat(WUsize(4 + WU32(ZoneArg).size + seg.size), WCat(WU32(ZoneArg), seg))),
      Op("get_profiles", 2, 0, RequestProfileList, "request", "profiles", WUnit),
      Op("load_profile", 2, 0, RequestLoadProfile, "write", "none",
         WRawString(StrTest)),
      Op("save_profile", 2, 0, RequestSaveProfile, "write", "none", WStr(StrTest)),
      Op("delete_profile", 2, 0, RequestDeleteProfile, "write", "none", WStr(StrTest)),
      Op("set_custom_mode", 0, ControllerArg, RGBControllerSetCustomMode, "write",
         "none", WUnit),
      Op("update_mode", 0, ControllerArg, RGBControllerUpdateMode, "write", "none",
         WCat(WUsize(4 + WU32(ModeArg(mpv).index).size + m.size),
              WCat(WU32(ModeArg(mpv).index), m))),
      Op("save_mode", 3, ControllerArg, RGBControllerSaveMode, "write", "none", m) }

\* the protocol_version fields of the modes callers pass: one of an old
\* session and one of a recent session
ModeVersions == {2, 4}

\* the operations the callers of a scenario choose from
SharedOps == {"set_name", "get_controller_count"}
OperationsOf(sc, kind, v, id) ==
    LET all == IF kind = "Stream2" THEN Operations(v, id)
               ELSE UNION {ClientOperations(v, mpv, id) : mpv \in ModeVersions}
    IN IF sc = "single" THEN all
       ELSE {o \in all : o.name \in SharedOps}

\* variant: the comparison is off by one
check_protocol_version_strict(protocol, min) == ~(protocol <= min)

\* check_protocol_version
check_protocol_version(protocol, min) == ~(protocol < min)

\* no codec is under test
NoCodec == [stage |-> "none"]
\* no command is built
NoCommand == [stage |-> "none"]

\* nothing is waiting to be read
NoPackets == [lens |-> <<>>, mid |-> FALSE]

NoOp == Op("none", 0, 0, 0, "write", "none", SerUnit)
NoRes == [kind |-> "None"]
Ok(v) == [kind |-> "Ok", val |-> v]
ProtocolError == [kind |-> "ProtocolError"]
IoError == [kind |-> "IoError"]
\* variant: the connect failure is passed on as it is
ConnectionErrorUnmapped == [kind |-> "IoError"]

\* connect_to: map_err to OpenRgbError::ConnectionError
ConnectionError == [kind |-> "ConnectionError"]
\* the task of the caller panicked (assert! in write_value)
Panic == [kind |-> "Panic"]
\* the process was ended by an allocation that failed
Aborted == [kind |-> "Aborted"]
UnsupportedOperation(min, cur) ==
    [kind |-> "UnsupportedOperation", min_protocol_version |-> min,
     current_protocol_version |-> cur]

InitSession ==
    /\ stream_kind \in {"Stream2", "ProtocolTcpStream"}
    /\ debug_assertions \in BOOLEAN
    /\ (stream_kind = "Stream2" => ~debug_assertions)
    /\ server_version \in 0..MaxServerVersion
    /\ alive = TRUE
    /\ eof = FALSE
    /\ session = "Connecting"
    /\ protocol_id = NONE
    /\ stream_version = NONE
    /\ lock_owner = 0
    /\ waiters = <<>>
    /\ pc = [p \in Procs |-> IF p = 0 THEN "connect" ELSE "idle"]
    /\ op = [p \in Procs |-> NoOp]
    /\ res = [p \in Procs |-> NoRes]
    /\ hdr_len = [p \in Procs |-> 0]
    /\ wrote = [p \in Procs |-> <<>>]
    /\ nread = [p \in Procs |-> 0]
    /\ calls = [p \in Procs |-> 0]
    /\ net = <<>>
    /\ rx = <<>>
    /\ inbuf = [p \in Procs |-> <<>>]
    /\ packets = NoPackets
    /\ requests = <<>>
    /\ abandoned_at = [p \in Procs |-> ""]
    /\ orphan_unread = [p \in Procs |-> FALSE]

\* one caller uses the session and may call every operation
Init ==
    /\ InitSession
    /\ scenario = "single"
    /\ codec = NoCodec
    /\ command = NoCommand
    /\ alloc_mib \in AllocMiB

\* SharedCallers callers share the session (clones of one
\* Arc<Mutex<stream>>) and each calls one operation
InitShared ==
    /\ InitSession
    /\ scenario = "shared"
    /\ codec = NoCodec
    /\ command = NoCommand
    /\ server_version = MaxServerVersion
    \* no reply of this scenario holds a matrix
    /\ alloc_mib = 134217728

\* the callers of a shared session call without end (on the stream of
\* stream2.rs, whose read of a reply ends at the end of the packet), or
\* each calls one operation (on either stream, with replies that leave
\* bytes behind)
InitProgress ==
    /\ InitSession
    /\ scenario \in {"progress", "shared"}
    /\ (scenario = "progress" => stream_kind = "Stream2")
    /\ codec = NoCodec
    /\ command = NoCommand
    /\ server_version = MaxServerVersion
    \* no reply of these scenarios holds a matrix
    /\ alloc_mib = 134217728

\* the callers that use the session
ActiveCallers ==
    CASE scenario = "single" -> {1}
      [] scenario = "shared" -> 1..SharedCallers
      [] OTHER               -> Callers

\* ------------------------------------------------------------------------
\* The stream's protocol version
\* ------------------------------------------------------------------------
\* DEFAULT_PROTOCOL of the generation
DefaultProtocol(kind) ==
    IF kind = "Stream2" THEN DEFAULT_PROTOCOL ELSE CLIENT_DEFAULT_PROTOCOL

\* Stream2::protocol_version
Stream2ProtocolVersion(field) == DEFAULT_PROTOCOL

\* ProtocolStream for ProtocolTcpStream :: protocol_version
TcpProtocolVersion(field) == field

\* ProtocolStream for Vec<u8> :: protocol_version (the debug write buffer)
VecProtocolVersion == CLIENT_DEFAULT_PROTOCOL

\* stream.protocol_version()
StreamProtocolVersion ==
    IF stream_kind = "Stream2" THEN Stream2ProtocolVersion(stream_version)
    ELSE TcpProtocolVersion(stream_version)

\* the version payloads are serialized with
WriteVersion ==
    IF stream_kind = "ProtocolTcpStream" /\ debug_assertions
    THEN VecProtocolVersion
    ELSE StreamProtocolVersion

\* variant: the server's version is adopted as it is
NegotiateServerVersion(default_protocol, req_protocol) == req_protocol

\* OpenRgbProtocol::new: the version adopted from the server's reply
Negotiate(default_protocol, req_protocol) == Min(default_protocol, req_protocol)

\* variant: lock() does not wait for the holder
MutexFreeAlways(owner) == TRUE

\* tokio Mutex::lock: the lock is taken at once when it is free
MutexFree(owner) == owner = 0

\* variant: every operation waits for a reply
ExpectsReplyAlways(o) == TRUE

\* request() reads a reply after the write, write_packet() does not
ExpectsReply(o) == o.kind = "request"

\* ------------------------------------------------------------------------
\* Leaving an operation
\* ------------------------------------------------------------------------
\* variant: the lock goes to the waiter that came last
UnlockNewest(p, next) ==
    IF waiters = <<>>
    THEN /\ lock_owner' = 0
         /\ waiters' = waiters
         /\ pc' = [pc EXCEPT ![p] = next]
    ELSE /\ lock_owner' = waiters[Len(waiters)]
         /\ waiters' = SubSeq(waiters, 1, Len(waiters) - 1)
         /\ pc' = [pc EXCEPT ![p] = next, ![waiters[Len(waiters)]] = "whdr"]

\* the MutexGuard is dropped: the lock goes to the first waiter, if any
Unlock(p, next) ==
    IF waiters = <<>>
    THEN /\ lock_owner' = 0
         /\ waiters' = waiters
         /\ pc' = [pc EXCEPT ![p] = next]
    ELSE /\ lock_owner' = Head(waiters)
         /\ waiters' = Tail(waiters)
         /\ pc' = [pc EXCEPT ![p] = next, ![Head(waiters)] = "whdr"]

\* variant: the version of the session follows every u32 reply
AdoptsVersionAnyReply(p, o, r) == r.kind = "Ok" /\ o.rtype = "u32"

\* protocol_id is assigned in OpenRgbProtocol::new only, from the reply to
\* RequestProtocolVersion; the operations take &self and leave it alone
AdoptsVersion(p, o, r) == p = 0 /\ r.kind = "Ok"

\* the operation of p returns r
Return(p, r) ==
    /\ res' = [res EXCEPT ![p] = r]
    /\ IF p = 0
       THEN /\ pc' = [pc EXCEPT ![0] = "done"]
            /\ UNCHANGED <<lock_owner, waiters>>
       ELSE Unlock(p, "done")
    /\ IF AdoptsVersion(p, op[p], r)
       THEN /\ session' = "Negotiated"
            /\ protocol_id' = Negotiate(DefaultProtocol(stream_kind), r.val)
            /\ stream_version' = Negotiate(DefaultProtocol(stream_kind), r.val)
       ELSE IF p = 0
       THEN /\ session' = "Failed"
            /\ UNCHANGED <<protocol_id, stream_version>>
       ELSE UNCHANGED <<session, protocol_id, stream_version>>

\* OpenRgbProtocol::get_protocol_version of the clone held by caller c:
\* Clone copies the protocol_id field
get_protocol_version(c) == protocol_id

\* the process ends under p (abort): no caller goes on, nothing is
\* unwound, the socket closes with the process
ProcessAborts(p) ==
    /\ res' = [res EXCEPT ![p] = Aborted]
    /\ pc' = [q \in Procs |-> IF q = 0 /\ p # 0 THEN pc[0] ELSE "aborted"]
    /\ UNCHANGED <<lock_owner, waiters, session, protocol_id, stream_version>>

\* p goes on to its next position, nothing returns
Goto(p, next) ==
    /\ pc' = [pc EXCEPT ![p] = next]
    /\ UNCHANGED <<res, lock_owner, waiters, session, protocol_id, stream_version>>

\* ------------------------------------------------------------------------
\* The server
\* ------------------------------------------------------------------------
\* the value a well-behaved server puts in a u32 reply
ReplyValue(req) == IF req.pid = RequestProtocolVersion THEN server_version ELSE 2

ProfilesBody == LE(13, 4) \o LE(1, 2) \o SerStr(StrTest).bytes
\* a plugin list that announces n plugins and ends
PluginsAnnounced(n) == LE(50, 4) \o LE(n, 2)
PluginsBody == LE(35, 4) \o LE(1, 2) \o SerStr(StrTest).bytes \o SerStr(StrTest).bytes
                 \o SerStr(StrTest).bytes \o LE(0, 4) \o LE(1, 4)

\* the reply a well-behaved server sends
GoodBody(req) ==
    CASE req.rtype = "u32"        -> LE(ReplyValue(req), 4)
      [] req.rtype = "profiles"   -> ProfilesBody
      [] req.rtype = "plugins"    -> PluginsBody
      [] req.rtype = "controller" -> ControllerWire(1, 1, protocol_id)
      [] OTHER                    -> <<>>

\* a list of one profile whose name is not UTF-8
ProfilesNotUtf8 == LE(10, 4) \o LE(1, 2) \o LE(2, 2) \o <<255, 0>>

\* the reply payloads the server may send: the good one, one with trailing
\* bytes, a truncated one, an empty one, one that is not UTF-8 and one
\* that ends inside a string; controllers of three modes and zones and
\* controllers whose zone announces a matrix that cannot be allocated and
\* a controller that announces 65535 modes and ends
\* (with several callers: the good one and the one with trailing bytes;
\* with callers that call without end, replies whose read ends at the end
\* of the packet on the stream that reads a payload by its length: the
\* good one, a truncated one and an empty one)
ReplyBodies(req) ==
    IF scenario = "shared" THEN { GoodBody(req), GoodBody(req) \o <<9, 9>> }
    ELSE IF scenario = "progress"
    THEN { GoodBody(req), Take(GoodBody(req), 2), <<>> }
    ELSE { GoodBody(req), GoodBody(req) \o <<9, 9>>, Take(GoodBody(req), 2), <<>> }
         \cup (IF req.rtype = "controller"
               THEN { ControllerWire(3, 3, protocol_id), ControllerHead(65535) }
                    \cup { ControllerOfZones(1, 1, z, protocol_id) :
                             z \in HugeZones(protocol_id) }
               ELSE {})
         \cup (IF req.rtype = "profiles"
               THEN { ProfilesNotUtf8,
                      LE(13, 4) \o LE(2, 2) \o LE(2, 2) \o <<97>> }
               ELSE {})

BadMagic == <<79, 82, 71, 67>>
\* a packet id that PacketId does not declare
UnknownPacketId == CHOOSE x \in 2..39 : x \notin PacketIdValues

\* the reply headers the server may send for a request: the matching one,
\* one with a wrong magic, a wrong device id, an unknown packet id,
\* another packet id and, for the controller count, one that announces
\* 8 MiB, more bytes than follow (with several callers: the first two; with callers
\* that call without end the second one has no payload, so that the
\* read of the header ends at the end of the packet)
ReplyHeaders(req, n) ==
    { HeaderBytes(req.dev, req.pid, n) }
    \cup (IF scenario = "progress" /\ n # 0 THEN {}
          ELSE { BadMagic \o LE(req.dev, 4) \o LE(req.pid, 4) \o LE(n, 4) })
    \cup (IF scenario \in {"shared", "progress"} THEN {}
          ELSE { HeaderBytes(req.dev + 1, req.pid, n),
                 MAGIC \o LE(req.dev, 4) \o LE(UnknownPacketId, 4) \o LE(n, 4),
                 HeaderBytes(req.dev, DeviceListUpdated, n) }
               \cup (IF req.pid = RequestControllerCount
                     THEN { HeaderBytes(req.dev, req.pid, 8388608) }
                     ELSE {}))

\* the server answers the oldest unanswered request with one packet, which
\* is on its way to the client
ServerRespond ==
    /\ requests # <<>>
    /\ alive
    /\ ~eof
    /\ LET req == Head(requests)
       IN \E body \in ReplyBodies(req) :
          \E hdr \in ReplyHeaders(req, Len(body)) :
             /\ (hdr # HeaderBytes(req.dev, req.pid, Len(body)) =>
                    body = (IF scenario = "progress" THEN <<>> ELSE GoodBody(req)))
             /\ net' = Append(net, [at |-> 0, bytes |-> hdr \o body])
             /\ packets' = [packets EXCEPT !.lens = @ \o <<Len(hdr) + Len(body)>>]
    /\ requests' = Tail(requests)
    /\ UNCHANGED <<config, codec, command, alive, eof, session, protocol_id, stream_version,
                   lock_owner, waiters, pc, op, res, hdr_len, wrote, nread,
                   calls, rx, inbuf, abandoned_at, orphan_unread>>

\* the numbers of bytes that arrive together of a packet of which at
\* bytes have arrived and n are on their way: all of them, or those up to
\* one of ArrivalCuts
ArrivalSizes(at, n) == {n} \cup {k \in 1..(n - 1) : at + k \in ArrivalCuts}

\* bytes on their way arrive at the client: a TCP transport delivers a
\* prefix of what was sent
Deliver ==
    /\ alive
    /\ net # <<>>
    /\ LET h == Head(net)
       IN \E k \in ArrivalSizes(h.at, Len(h.bytes)) :
            /\ rx' = rx \o Take(h.bytes, k)
            /\ net' = IF k = Len(h.bytes) THEN Tail(net)
                      ELSE <<[at |-> h.at + k, bytes |-> Drop(h.bytes, k)]>>
                           \o Tail(net)
    /\ UNCHANGED <<config, codec, command, alive, eof, session, protocol_id, stream_version,
                   lock_owner, waiters, pc, op, res, hdr_len, wrote, nread,
                   calls, inbuf, packets, requests, abandoned_at, orphan_unread>>

\* the transport breaks: later writes fail, reads fail once the bytes
\* already received are used up
TransportFail ==
    /\ alive
    /\ pc[0] # "connect"
    /\ session # "Failed"
    /\ alive' = FALSE
    /\ UNCHANGED <<config, codec, command, eof, session, protocol_id, stream_version,
                   lock_owner, waiters, pc, op, res, hdr_len, wrote, nread,
                   calls, net, rx, inbuf, packets, requests, abandoned_at, orphan_unread>>

\* the server closes its sending side (half-close): reads meet the end of
\* the stream once the bytes already received are used up, writes still go
\* through
ServerShutdown ==
    /\ alive
    /\ ~eof
    /\ pc[0] # "connect"
    /\ session # "Failed"
    /\ eof' = TRUE
    /\ UNCHANGED <<config, codec, command, alive, session, protocol_id, stream_version,
                   lock_owner, waiters, pc, op, res, hdr_len, wrote, nread,
                   calls, net, rx, inbuf, packets, requests, abandoned_at, orphan_unread>>

\* read_exact on an exhausted transport returns an error instead of waiting
ReadFails == ~alive \/ (eof /\ net = <<>>)

\* ------------------------------------------------------------------------
\* Connecting
\* ------------------------------------------------------------------------
\* connect_to: ProtocolStream::connect, then new() starts its request
Connect ==
    /\ pc[0] = "connect"
    /\ \E connected \in BOOLEAN :
         IF connected
         THEN /\ stream_version' = DefaultProtocol(stream_kind)
              /\ op' = [op EXCEPT ![0] = NegotiateOp(stream_kind)]
              /\ pc' = [pc EXCEPT ![0] = "whdr"]
              /\ UNCHANGED <<res, session, alive>>
         ELSE /\ res' = [res EXCEPT ![0] = ConnectionError]
              /\ session' = "Failed"
              /\ alive' = FALSE
              /\ pc' = [pc EXCEPT ![0] = "done"]
              /\ UNCHANGED <<op, stream_version>>
    /\ UNCHANGED <<config, codec, command, eof, protocol_id, lock_owner, waiters, hdr_len,
                   wrote, nread, calls, net, rx, inbuf, packets, requests, abandoned_at,
                   orphan_unread>>

\* ------------------------------------------------------------------------
\* Session operations
\* ------------------------------------------------------------------------
\* A caller calls an operation: check_protocol_version, then lock().
StartOp(c) ==
    /\ session = "Negotiated"
    /\ c \in ActiveCallers
    /\ pc[c] \in {"idle", "done", "abandoned"}
    /\ (scenario = "progress" \/ calls[c] < MaxCalls)
    /\ (scenario = "shared" => calls[c] = 0)
    /\ \E o \in OperationsOf(scenario, stream_kind, WriteVersion, protocol_id) :
         /\ op' = [op EXCEPT ![c] = o]
         /\ IF o.kind = "unimplemented"
            THEN /\ res' = [res EXCEPT ![c] = Panic]
                 /\ pc' = [pc EXCEPT ![c] = "done"]
                 /\ UNCHANGED <<lock_owner, waiters>>
            ELSE IF ~check_protocol_version(protocol_id, o.min)
            THEN /\ res' = [res EXCEPT ![c] = UnsupportedOperation(o.min, protocol_id)]
                 /\ pc' = [pc EXCEPT ![c] = "done"]
                 /\ UNCHANGED <<lock_owner, waiters>>
            ELSE /\ res' = [res EXCEPT ![c] = NoRes]
                 /\ IF MutexFree(lock_owner)
                    THEN /\ lock_owner' = c
                         /\ pc' = [pc EXCEPT ![c] = "whdr"]
                         /\ UNCHANGED waiters
                    ELSE /\ waiters' = Append(waiters, c)
                         /\ pc' = [pc EXCEPT ![c] = "wait"]
                         /\ UNCHANGED lock_owner
    \* the calls are counted up to MaxCalls
    /\ calls' = [calls EXCEPT ![c] = Min(@ + 1, MaxCalls)]
    /\ wrote' = [wrote EXCEPT ![c] = <<>>]
    /\ nread' = [nread EXCEPT ![c] = 0]
    /\ hdr_len' = [hdr_len EXCEPT ![c] = 0]
    /\ abandoned_at' = [abandoned_at EXCEPT ![c] = ""]
    /\ orphan_unread' = [orphan_unread EXCEPT ![c] = FALSE]
    /\ UNCHANGED <<config, codec, command, alive, eof, session, protocol_id, stream_version, net, rx, inbuf, packets,
                   requests>>

\* ------------------------------------------------------------------------
\* Writing a packet (Stream2::write_packet, WritableStream::write_packet)
\* ------------------------------------------------------------------------
\* the debug build of stream.rs assembles the packet in a Vec and sends it
\* with one write
OneWrite == stream_kind = "ProtocolTcpStream" /\ debug_assertions

\* the payload is serialized before the first byte goes out
EncodesFirst == stream_kind = "Stream2" \/ OneWrite

\* the packet-size field of the header: the length of the serialized
\* payload (Stream2), data.size() (WritableStream)
PacketSize(kind, data) ==
    IF kind = "Stream2" THEN Len(data.bytes) ELSE data.size

\* the whole packet is on the wire
AfterWrite(p) ==
    IF ExpectsReply(op[p])
    THEN /\ Goto(p, "rhdr")
         /\ requests' = Append(requests,
                [dev |-> op[p].dev, pid |-> op[p].pid, rtype |-> op[p].rtype])
    ELSE /\ Return(p, Ok(<<>>))
         /\ UNCHANGED requests

\* write_all yields when the transport is full; the bytes it has handed
\* over stay on the wire.  With done bytes of the packet on the wire and a
\* write_all that ends at byte n of the packet, the numbers of bytes the
\* transport may take before it is full:
PartialWrites(done, n) == 1..(n - done - 1)

\* Stream2: the payload is serialized, then the header is written.
\* WritableStream, debug build: header and payload go into a Vec, which is
\* written with one write_all.  WritableStream, release build: the header
\* is written.  A step writes the rest of the bytes, or a part of them.
WriteHeader(p) ==
    /\ pc[p] = "whdr"
    /\ LET o == op[p]
           hdr == HeaderBytes(o.dev, o.pid, PacketSize(stream_kind, o.data))
           all == IF OneWrite THEN hdr \o o.data.bytes ELSE hdr
           done == Len(wrote[p])
       IN IF EncodesFirst /\ ~o.data.ok
          THEN Return(p, ProtocolError) /\ UNCHANGED <<wrote, requests>>
          ELSE IF EncodesFirst /\ o.data.panic
          THEN Return(p, Panic) /\ UNCHANGED <<wrote, requests>>
          ELSE IF ~alive
          THEN Return(p, IoError) /\ UNCHANGED <<wrote, requests>>
          ELSE \/ /\ wrote' = [wrote EXCEPT ![p] = all]
                  /\ IF OneWrite
                     THEN AfterWrite(p)
                     ELSE Goto(p, "wpay") /\ UNCHANGED requests
               \/ \E k \in PartialWrites(done, Len(all)) :
                    /\ wrote' = [wrote EXCEPT ![p] = Take(all, done + k)]
                    /\ Goto(p, "whdr")
                    /\ UNCHANGED requests
    /\ UNCHANGED <<config, codec, command, alive, eof, op, hdr_len, nread, calls, net, rx, inbuf, packets, orphan_unread,
                   abandoned_at>>

\* Stream2: the serialized payload is written.  WritableStream, release
\* build: the value is written to the socket field by field; what an error
\* or a failed assertion leaves behind is on the wire.
WritePayload(p) ==
    /\ pc[p] = "wpay"
    /\ LET o == op[p]
           done == Len(wrote[p]) - HEADER_SIZE
           rest == Drop(o.data.bytes, done)
       IN IF ~alive /\ Len(rest) > 0
          THEN Return(p, IoError) /\ UNCHANGED <<wrote, requests>>
          ELSE \/ /\ wrote' = [wrote EXCEPT ![p] = @ \o rest]
                  /\ IF ~o.data.ok
                     THEN Return(p, ProtocolError) /\ UNCHANGED requests
                     ELSE IF o.data.panic
                     THEN Return(p, Panic) /\ UNCHANGED requests
                     ELSE AfterWrite(p)
               \/ \E k \in PartialWrites(Len(wrote[p]), HEADER_SIZE + Len(o.data.bytes)) :
                    /\ wrote' = [wrote EXCEPT ![p] = @ \o Take(rest, k)]
                    /\ Goto(p, "wpay")
                    /\ UNCHANGED requests
    /\ UNCHANGED <<config, codec, command, alive, eof, op, hdr_len, nread, calls, net, rx, inbuf, packets, orphan_unread,
                   abandoned_at>>

\* ------------------------------------------------------------------------
\* Reading a packet (Stream2::read_packet, ReadableStream::read_packet)
\* ------------------------------------------------------------------------
\* n bytes are taken off the packets k that wait to be read
RECURSIVE TakeOff(_, _)
TakeOff(k, n) ==
    IF n = 0 \/ k.lens = <<>> THEN k
    ELSE IF n >= Head(k.lens)
    THEN TakeOff([lens |-> Tail(k.lens), mid |-> FALSE], n - Head(k.lens))
    ELSE [lens |-> <<Head(k.lens) - n>> \o Tail(k.lens), mid |-> TRUE]

\* p takes n bytes off the transport
Consume(p, n) ==
    /\ rx' = Drop(rx, n)
    /\ packets' = TakeOff(packets, Min(n, Len(rx)))
    /\ nread' = [nread EXCEPT ![p] = @ + Min(n, Len(rx))]
    /\ orphan_unread' = IF Min(n, Len(rx)) > 0
                        THEN [q \in Procs |-> FALSE]
                        ELSE orphan_unread

\* read_header of the stream in use
ReadHeaderOf(kind, avail, device_id, packet_id) ==
    IF kind = "Stream2" THEN Stream2ReadHeader(avail, device_id, packet_id)
    ELSE StreamReadHeader(avail, device_id, packet_id)

\* the pending read of p keeps the bytes that have arrived and waits for
\* more
Buffer(p) ==
    /\ rx # <<>>
    /\ Consume(p, Len(rx))
    /\ inbuf' = [inbuf EXCEPT ![p] = @ \o rx]
    /\ Goto(p, pc[p])

\* the pending read of p is over: what it has taken is used up or lost
Unbuffer(p) == inbuf' = [inbuf EXCEPT ![p] = <<>>]

\* The header is read from the bytes the read has taken so far and those
\* that have arrived.  read_exact takes what has arrived and waits for the
\* rest; it fails when the transport is gone.
ReadHeader(p) ==
    /\ pc[p] = "rhdr"
    /\ LET h == ReadHeaderOf(stream_kind, inbuf[p] \o rx, op[p].dev, op[p].pid)
       IN CASE h.st = "short" ->
                 /\ IF ReadFails
                    THEN Consume(p, Len(rx)) /\ Return(p, IoError) /\ Unbuffer(p)
                    ELSE Buffer(p)
                 /\ UNCHANGED hdr_len
            [] h.st = "bad" ->
                 /\ Consume(p, h.used - Len(inbuf[p]))
                 /\ Return(p, ProtocolError)
                 /\ Unbuffer(p)
                 /\ UNCHANGED hdr_len
            [] OTHER ->
                 /\ Consume(p, h.used - Len(inbuf[p]))
                 /\ hdr_len' = [hdr_len EXCEPT ![p] = h.len]
                 /\ Unbuffer(p)
                 /\ Goto(p, "rpay")
    /\ UNCHANGED <<config, codec, command, alive, eof, op, wrote, calls, net, requests, abandoned_at>>

\* Stream2::read_packet: a buffer of the length the header announces is
\* allocated, the payload is read whole into it, then decoded from the
\* buffer.  ReadableStream::read_packet: the value is decoded straight from
\* the socket, the length of the header is not used.
\* A payload buffer that ends inside the bytes of a string fails
\* read_exact on the buffer: an io error, like a failure of the transport
\* ("io").  On the socket the same read waits for the bytes ("short").
ReadPayloadOf(kind, avail, len, rtype, v) ==
    IF kind = "Stream2"
    THEN IF VecAllocationFails("u8", len) THEN DecRes("abort", <<>>, 0)
         ELSE IF Len(avail) < len THEN DecRes("short", <<>>, Len(avail))
         ELSE LET d == Decode(rtype, Take(avail, len), v)
              IN DecRes(CASE d.st \in {"ok", "panic", "abort"} -> d.st
                          [] d.st = "eof" -> "io"
                          [] OTHER -> "bad", d.val, len)
    ELSE LET d == Decode(rtype, avail, v)
         IN IF d.st = "eof" THEN DecRes("short", <<>>, Len(avail)) ELSE d

ReadPayload(p) ==
    /\ pc[p] = "rpay"
    /\ LET d == ReadPayloadOf(stream_kind, inbuf[p] \o rx, hdr_len[p],
                              op[p].rtype, StreamProtocolVersion)
       IN CASE d.st = "short" ->
                 IF ReadFails
                 THEN Consume(p, Len(rx)) /\ Return(p, IoError) /\ Unbuffer(p)
                 ELSE Buffer(p)
            [] d.st = "io" ->
                 /\ Consume(p, d.used - Len(inbuf[p]))
                 /\ Return(p, IoError)
                 /\ Unbuffer(p)
            [] d.st = "bad" ->
                 /\ Consume(p, d.used - Len(inbuf[p]))
                 /\ Return(p, ProtocolError)
                 /\ Unbuffer(p)
            [] d.st = "panic" ->
                 \* the unwinding drops the MutexGuard
                 /\ Consume(p, d.used - Len(inbuf[p]))
                 /\ Return(p, Panic)
                 /\ Unbuffer(p)
            [] d.st = "abort" ->
                 /\ Consume(p, d.used - Len(inbuf[p]))
                 /\ ProcessAborts(p)
                 /\ Unbuffer(p)
            [] OTHER ->
                 /\ Consume(p, d.used - Len(inbuf[p]))
                 /\ Return(p, Ok(Reply(op[p], d.val)))
                 /\ Unbuffer(p)
    /\ alive' = (alive /\ pc'[p] # "aborted")
    /\ UNCHANGED <<config, codec, command, eof, op, hdr_len, wrote, calls, net, requests,
                   abandoned_at>>

\* ------------------------------------------------------------------------
\* Dropping a call
\* ------------------------------------------------------------------------
Without(q, c) == SelectSeq(q, LAMBDA x : x # c)

\* The caller drops the future of its call at an await point.  The future
\* owns the MutexGuard, so the lock is released with it.
Abandon(c) ==
    /\ pc[c] \in {"wait", "whdr", "wpay", "rhdr", "rpay"}
    /\ abandoned_at' = [abandoned_at EXCEPT ![c] = pc[c]]
    /\ orphan_unread' = [orphan_unread EXCEPT ![c] = pc[c] \in {"rhdr", "rpay"}]
    /\ res' = [res EXCEPT ![c] = [kind |-> "Abandoned"]]
    /\ IF pc[c] = "wait"
       THEN /\ waiters' = Without(waiters, c)
            /\ pc' = [pc EXCEPT ![c] = "abandoned"]
            /\ UNCHANGED lock_owner
       ELSE Unlock(c, "abandoned")
    /\ Unbuffer(c)
    /\ UNCHANGED <<config, codec, command, alive, eof, session, protocol_id, stream_version, op,
                   hdr_len, wrote, nread, calls, net, rx, packets, requests>>

\* ------------------------------------------------------------------------
\* Specification
\* ------------------------------------------------------------------------
Next ==
    \/ Connect
    \/ ServerRespond
    \/ Deliver
    \/ TransportFail
    \/ ServerShutdown
    \/ \E c \in Callers : StartOp(c)
    \/ \E p \in Procs : WriteHeader(p)
    \/ \E p \in Procs : WritePayload(p)
    \/ \E p \in Procs : ReadHeader(p)
    \/ \E p \in Procs : ReadPayload(p)
    \/ \E c \in Callers : Abandon(c)

Spec == Init /\ [][Next]_vars

SpecShared == InitShared /\ [][Next]_vars

\* The connect procedure is a task the executor keeps polling: each of its
\* steps is taken when it stays possible.  Nothing makes the server answer.
SpecConnect ==
    /\ Init
    /\ [][Next]_vars
    /\ WF_vars(Connect)
    /\ WF_vars(WriteHeader(0))
    /\ WF_vars(WritePayload(0))
    /\ WF_vars(ReadHeader(0))
    /\ WF_vars(ReadPayload(0))

\* Several callers share a session whose server answers every request with
\* one packet; no call is dropped.  The transport may fail: the reads and
\* writes that follow return an error.
NextProgress ==
    \/ Connect
    \/ ServerRespond
    \/ Deliver
    \/ TransportFail
    \/ \E c \in Callers : StartOp(c)
    \/ \E p \in Procs : WriteHeader(p)
    \/ \E p \in Procs : WritePayload(p)
    \/ \E p \in Procs : ReadHeader(p)
    \/ \E p \in Procs : ReadPayload(p)

\* The futures of the calls are polled until they return, the tokio Mutex
\* wakes its waiters in arrival order, and the server keeps answering.
SpecProgress ==
    /\ InitProgress
    /\ [][NextProgress]_vars
    /\ WF_vars(Connect)
    /\ WF_vars(ServerRespond)
    /\ WF_vars(Deliver)
    /\ \A p \in Procs :
         /\ WF_vars(WriteHeader(p))
         /\ WF_vars(WritePayload(p))
         /\ WF_vars(ReadHeader(p))
         /\ WF_vars(ReadPayload(p))

\* ------------------------------------------------------------------------
\* Codecs of the domain types
\* ------------------------------------------------------------------------
\* impl_enum_discriminant! and the enum declarations: the variants in the
\* order of their values 0, 1, 2, ...
DeviceTypeTable ==
    << "Motherboard", "DRam", "Gpu", "Cooler", "LEDStrip", "Keyboard",
       "Mouse", "MouseMat", "Headset", "HeadsetStand", "Gamepad", "Light",
       "Speaker", "Virtual", "Unknown" >>
ZoneTypeTable == << "Single", "Linear", "Matrix" >>
ColorModeTable == << "None", "PerLED", "ModeSpecific", "Random" >>
DirectionTable == << "Left", "Right", "Up", "Down", "Horizontal", "Vertical" >>

\* u32::from(&variant), `variant as u32`
EnumToU32(table, x) == (CHOOSE i \in 1..Len(table) : table[i] = x) - 1

\* variant: a value that is not declared gives the first variant
EnumTryFromDefaulting(table, raw) ==
    IF raw < Len(table) THEN <<table[raw + 1]>> ELSE <<table[1]>>

\* Enum::try_from(raw), Enum::from_u32(raw): <<variant>>, or <<>> when no
\* variant has the value
EnumTryFrom(table, raw) ==
    IF raw < Len(table) THEN <<table[raw + 1]>> ELSE <<>>

\* the bits of the flags of ModeFlag
ModeFlagBits ==
    [ HasSpeed |-> 1, HasDirectionLR |-> 2, HasDirectionUD |-> 4,
      HasDirectionHV |-> 8, HasDirection |-> 14, HasBrightness |-> 16,
      HasPerLEDColor |-> 32, HasModeSpecificColor |-> 64,
      HasRandomColor |-> 128, ManualSave |-> 256, AutomaticSave |-> 512 ]

\* the flags of one bit; a FlagSet<ModeFlag> is the set of those it holds
SingleFlags == DOMAIN ModeFlagBits \ {"HasDirection"}

\* bit `one` (a power of two) is set in n
HasBit(n, one) == (n \div one) % 2 = 1

\* f1 | f2 | ...: the flag set made of the flags fs
FlagSetOf(fs) ==
    { s \in SingleFlags :
        \E f \in fs : HasBit(ModeFlagBits[f], ModeFlagBits[s]) }

\* FlagSet::bits
RECURSIVE FlagSetBits(_)
FlagSetBits(set) ==
    IF set = {} THEN 0
    ELSE The({ ModeFlagBits[s] + FlagSetBits(set \ {s})
               : s \in { CHOOSE x \in set : TRUE } })

\* variant: the bits no flag declares are dropped
FlagSetNewTruncated(raw) ==
    << { s \in SingleFlags : HasBit(raw, ModeFlagBits[s]) } >>

\* FlagSet::<ModeFlag>::new(raw): <<set>> when every bit of raw belongs to
\* a declared flag, <<>> otherwise
FlagSetNew(raw) ==
    The({ IF FlagSetBits(set) = raw THEN <<set>> ELSE <<>>
          : set \in { { s \in SingleFlags : HasBit(raw, ModeFlagBits[s]) } } })

\* ProtocolOption<VER, T>
Some(x) == [some |-> TRUE, val |-> x]
UnsupportedVersion == [some |-> FALSE, val |-> 0]

\* WriteMessage::write_u8, write_u16
SerU8(x) == Enc(<<x>>)
SerU16(x) == Enc(LE(x, 2))

\* SerToBuf for DeviceType, ZoneType, ColorMode: the discriminant as a u32
SerEnum(table, x) == SerU32(EnumToU32(table, x))

\* SerToBuf for ProtocolOption<VER, u32>
SerProtocolOption(VER, o, v) ==
    IF v < VER THEN Enc(<<>>)
    ELSE IF o.some THEN SerU32(o.val) ELSE Enc(<<>>)

\* Writable for ColorMode, Direction
WEnum(table, x) == WU32(EnumToU32(table, x))

\* Writable for FlagSet<ModeFlag>
WFlagSet(set) == WU32(FlagSetBits(set))

\* Writable for ProtocolOption<VER, u32>: size() and try_write look at the
\* variant only
WProtocolOption(VER, o, v) == IF o.some THEN WU32(o.val) ELSE WUnit

\* ReceivedMessage::read_u8
DecU8(b) == IF Len(b) < 1 THEN DecRes("short", 0, 0)
            ELSE DecRes("ok", b[1], 1)

\* i32: four bytes, two's complement
DecI32(b) ==
    IF Len(b) < 4 THEN DecRes("short", 0, 0)
    ELSE IF b[4] >= 128
         THEN DecRes("ok", -(FromLE([i \in 1..4 |-> 255 - b[i]]) + 1), 4)
         ELSE DecRes("ok", FromLE(SubSeq(b, 1, 4)), 4)

\* [u8; N], and the body of a Color: N times read_u8
DecArray(b, N) ==
    IF Len(b) < N THEN DecRes("short", <<>>, Len(b))
    ELSE DecRes("ok", SubSeq(b, 1, N), N)

\* Color: r, g, b and one byte that is dropped
DecColor(b) ==
    The({ IF a.st # "ok" THEN a
          ELSE DecRes("ok", [r |-> a.val[1], g |-> a.val[2], b |-> a.val[3]], 4)
          : a \in { DecArray(b, 4) } })

\* read n consecutive colors (the body of Vec<Color>)
RECURSIVE DecColors(_, _)
DecColors(b, n) ==
    IF n = 0 THEN DecRes("ok", <<>>, 0)
    ELSE The({ IF h.st # "ok" THEN DecRes(h.st, <<>>, h.used)
               ELSE The({ DecRes(t.st,
                                 IF t.st = "ok" THEN <<h.val>> \o t.val ELSE <<>>,
                                 h.used + t.used)
                          : t \in { DecColors(Drop(b, h.used), n - 1) } })
               : h \in { DecColor(b) } })

\* Vec<Color>: u16 count followed by the elements
DecVecColor(b) ==
    The({ IF n.st # "ok" THEN DecRes(n.st, <<>>, n.used)
          ELSE IF VecAllocationFails("Color", n.val)
          THEN DecRes("abort", <<>>, 2)
          ELSE The({ DecRes(t.st, t.val, 2 + t.used)
                     : t \in { DecColors(Drop(b, 2), n.val) } })
          : n \in { DecU16(b) } })

\* (u32, Vec<Color>)
DecU32VecColor(b) ==
    The({ IF a.st # "ok" THEN DecRes(a.st, <<>>, a.used)
          ELSE The({ DecRes(t.st,
                            IF t.st = "ok" THEN <<a.val, t.val>> ELSE <<>>,
                            4 + t.used)
                     : t \in { DecVecColor(Drop(b, 4)) } })
          : a \in { DecU32(b) } })

\* ZoneType, ColorMode, Direction: a value that is not declared is a
\* ProtocolError
DecEnum(table, b) ==
    The({ IF n.st # "ok" THEN DecRes(n.st, <<>>, n.used)
          ELSE IF EnumTryFrom(table, n.val) = <<>> THEN DecRes("bad", <<>>, 4)
          ELSE DecRes("ok", EnumTryFrom(table, n.val)[1], 4)
          : n \in { DecU32(b) } })

\* DeviceType: try_from(raw).unwrap_or(DeviceType::Unknown)
DecDeviceType(b) ==
    The({ IF n.st # "ok" THEN DecRes(n.st, <<>>, n.used)
          ELSE IF EnumTryFrom(DeviceTypeTable, n.val) = <<>>
          THEN DecRes("ok", "Unknown", 4)
          ELSE DecRes("ok", EnumTryFrom(DeviceTypeTable, n.val)[1], 4)
          : n \in { DecU32(b) } })

\* PacketId: read_u32, then PacketId::try_from
DecPacketId(b) ==
    The({ IF n.st # "ok" THEN DecRes(n.st, 0, n.used)
          ELSE IF PacketIdTryFrom(n.val) THEN n
          ELSE DecRes("bad", 0, 4)
          : n \in { DecU32(b) } })

\* FlagSet<ModeFlag>: a u32, then FlagSet::new
DecFlagSet(b) ==
    The({ IF n.st # "ok" THEN DecRes(n.st, {}, n.used)
          ELSE IF FlagSetNew(n.val) = <<>> THEN DecRes("bad", {}, 4)
          ELSE DecRes("ok", FlagSetNew(n.val)[1], 4)
          : n \in { DecU32(b) } })

\* variant: below version 4 a default segment is returned
DecSegmentDataDefaulting(b, v) ==
    IF v < 4
    THEN DecRes("ok", [name |-> <<>>, seg_type |-> 0, start_idx |-> 0,
                       led_count |-> 0], 0)
    ELSE The({ IF s.st # "ok" THEN DecRes(s.st, <<>>, s.used)
               ELSE The({ IF t.st # "ok" THEN DecRes(t.st, <<>>, s.used + t.used)
                          ELSE IF i.st # "ok"
                          THEN DecRes(i.st, <<>>, s.used + 4 + i.used)
                          ELSE IF c.st # "ok"
                          THEN DecRes(c.st, <<>>, s.used + 8 + c.used)
                          ELSE DecRes("ok", [name |-> s.val, seg_type |-> t.val,
                                             start_idx |-> i.val,
                                             led_count |-> c.val],
                                      s.used + 12)
                          : t \in { DecI32(Drop(b, s.used)) },
                            i \in { DecU32(Drop(b, s.used + 4)) },
                            c \in { DecU32(Drop(b, s.used + 8)) } })
               : s \in { DecString(b) } })

\* SegmentData: refused below version 4; name, seg_type, start_idx,
\* led_count
DecSegmentData(b, v) ==
    IF v < 4 THEN DecRes("bad", <<>>, 0)
    ELSE The({ IF s.st # "ok" THEN DecRes(s.st, <<>>, s.used)
               ELSE The({ IF t.st # "ok" THEN DecRes(t.st, <<>>, s.used + t.used)
                          ELSE IF i.st # "ok"
                          THEN DecRes(i.st, <<>>, s.used + 4 + i.used)
                          ELSE IF c.st # "ok"
                          THEN DecRes(c.st, <<>>, s.used + 8 + c.used)
                          ELSE DecRes("ok", [name |-> s.val, seg_type |-> t.val,
                                             start_idx |-> i.val,
                                             led_count |-> c.val],
                                      s.used + 12)
                          : t \in { DecI32(Drop(b, s.used)) },
                            i \in { DecU32(Drop(b, s.used + 4)) },
                            c \in { DecU32(Drop(b, s.used + 8)) } })
               : s \in { DecString(b) } })

\* ProtocolOption<VER, u32>: nothing is read below version VER
DecProtocolOption(VER, b, v) ==
    IF v < VER THEN DecRes("ok", UnsupportedVersion, 0)
    ELSE The({ IF n.st # "ok" THEN DecRes(n.st, UnsupportedVersion, n.used)
               ELSE DecRes("ok", Some(n.val), 4)
               : n \in { DecU32(b) } })

\* read_value_min_version: the value is read from version min on, None
\* below it
ReadValueMinVersion(d, min, v) ==
    IF v >= min THEN d ELSE DecRes("ok", NONE, 0)

\* read n consecutive segments (the body of Vec<SegmentData>)
RECURSIVE DecSegments(_, _, _)
DecSegments(b, n, v) ==
    IF n = 0 THEN DecRes("ok", <<>>, 0)
    ELSE The({ IF h.st # "ok" THEN DecRes(h.st, <<>>, h.used)
               ELSE The({ DecRes(t.st,
                                 IF t.st = "ok" THEN <<h.val>> \o t.val ELSE <<>>,
                                 h.used + t.used)
                          : t \in { DecSegments(Drop(b, h.used), n - 1, v) } })
               : h \in { DecSegmentData(b, v) } })

\* Vec<SegmentData>: u16 count followed by the elements
DecVecSegment(b, v) ==
    The({ IF n.st # "ok" THEN DecRes(n.st, <<>>, n.used)
          ELSE IF VecAllocationFails("SegmentData", n.val)
          THEN DecRes("abort", <<>>, 2)
          ELSE The({ DecRes(t.st, t.val, 2 + t.used)
                     : t \in { DecSegments(Drop(b, 2), n.val, v) } })
          : n \in { DecU16(b) } })

\* Vec::<u32>::with_capacity(h * w) panics ("capacity overflow") when the
\* allocation of 4 * h * w bytes is above isize::MAX, that is when
\* h * w >= 2^61 (usize of 64 bits).  With h = 2^30 + a and w = 2^30 + c
\* this is  a + c + (a * c \div 2^30) >= 2^30;  a and c are split in halves
\* of 15 bits so that no product leaves the integers of the model checker.
CapacityOverflow(h, w) ==
    /\ h >= 1073741824
    /\ w >= 1073741824
    /\ LET a == h - 1073741824
           c == w - 1073741824
           a1 == a \div 32768
           a0 == a % 32768
           c1 == c \div 32768
           c0 == c % 32768
           m == a1 * c0 + a0 * c1
           q == a1 * c1 + (m \div 32768)
                + (((m % 32768) * 32768 + a0 * c0) \div 1073741824)
       IN q >= 1073741824 - (a + c)

\* The MiB, rounded up, of a Vec<u32> of h * w cells: 4 * h * w bytes,
\* 262144 cells to the MiB; 268435456 stands for every size above 256 TiB.
\* h and w are split at 9 bits so that no product leaves the integers
\* of the model checker:
\*   h * w = h1 * w1 * 2^18 + (h1 * w0 + h0 * w1) * 2^9 + h0 * w0
MatrixMiB(h, w) ==
    LET h1 == h \div 512
        h0 == h % 512
        w1 == w \div 512
        w0 == w % 512
        b == h1 * w0
        c == h0 * w1
        r == ((b % 512) + (c % 512)) * 512 + h0 * w0
    IN IF h1 > 0 /\ w1 > 268435456 \div h1 THEN 268435456
       ELSE Min(268435456,
                h1 * w1 + (b \div 512) + (c \div 512) + ((r + 262143) \div 262144))

\* Below that, Vec::with_capacity asks the allocator for 4 * h * w bytes
\* before a cell is read; when the allocator does not serve them the
\* process aborts (handle_alloc_error).  What it serves depends on the
\* machine: alloc_mib is one of AllocMiB.
AllocationFails(h, w) == MatrixMiB(h, w) > alloc_mib

\* the cells of a matrix: h * w times a u32, row after row
DecCells(b, h, w) ==
    IF h = 0 \/ w = 0 THEN DecRes("ok", <<>>, 0)
    ELSE IF h > (Len(b) \div 4) \div w
    THEN DecRes("short", <<>>, 4 * (Len(b) \div 4))
    ELSE DecRes("ok", [i \in 1..(h * w) |-> FromLE(SubSeq(b, 4 * i - 3, 4 * i))],
                4 * h * w)

\* variant: the cells fill the matrix column after column
FromColumnMajor(cells, num_rows, num_columns) ==
    [r \in 1..num_rows |->
       [c \in 1..num_columns |-> cells[(c - 1) * num_rows + r]]]

\* Array2D::from_row_major(&cells, num_rows, num_columns): the rows of the
\* matrix, the cells of a row next to one another in `cells`
FromRowMajor(cells, num_rows, num_columns) ==
    [r \in 1..num_rows |->
       [c \in 1..num_columns |-> cells[(r - 1) * num_columns + c]]]

\* the matrix of a zone: u16 matrix length; when it is not 0: height,
\* width, Vec::with_capacity(height * width), then the cells
DecMatrix(b) ==
    The({ IF n.st # "ok" THEN DecRes(n.st, NONE, n.used)
          ELSE IF n.val = 0 THEN DecRes("ok", [some |-> FALSE], 2)
          ELSE The({ IF h.st # "ok" THEN DecRes(h.st, NONE, 2 + h.used)
                     ELSE IF w.st # "ok" THEN DecRes(w.st, NONE, 6 + w.used)
                     ELSE IF CapacityOverflow(h.val, w.val)
                     THEN DecRes("panic", NONE, 10)
                     ELSE IF AllocationFails(h.val, w.val)
                     THEN DecRes("abort", NONE, 10)
                     ELSE The({ DecRes(c.st,
                                       IF c.st = "ok"
                                       THEN [some |-> TRUE,
                                             num_rows |-> h.val,
                                             num_columns |-> w.val,
                                             rows |-> FromRowMajor(c.val, h.val,
                                                                   w.val)]
                                       ELSE NONE,
                                       10 + c.used)
                                : c \in { DecCells(Drop(b, 10), h.val, w.val) } })
                     : h \in { DecU32(Drop(b, 2)) },
                       w \in { DecU32(Drop(b, 6)) } })
          : n \in { DecU16(b) } })

\* name, zone_type, leds_min, leds_max, leds_count of a zone
DecZoneHead(b) ==
    The({ IF s.st # "ok" THEN DecRes(s.st, <<>>, s.used)
          ELSE The({ IF t.st # "ok" THEN DecRes(t.st, <<>>, s.used + t.used)
                     ELSE IF Len(b) < s.used + 16
                     THEN DecRes("short", <<>>,
                                 s.used + 4 + 4 * ((Len(b) - s.used - 4) \div 4))
                     ELSE DecRes("ok",
                                 [name |-> s.val, zone_type |-> t.val,
                                  leds_min |-> FromLE(SubSeq(b, s.used + 5, s.used + 8)),
                                  leds_max |-> FromLE(SubSeq(b, s.used + 9, s.used + 12)),
                                  leds_count |-> FromLE(SubSeq(b, s.used + 13, s.used + 16))],
                                 s.used + 16)
                     : t \in { DecEnum(ZoneTypeTable, Drop(b, s.used)) } })
          : s \in { DecString(b) } })

\* ZoneData::try_read (the id is not read: the reader of the list sets it)
DecZoneData(b, v) ==
    The({ IF z.st # "ok" THEN z
          ELSE The({ IF m.st # "ok" THEN DecRes(m.st, <<>>, z.used + m.used)
                     ELSE The({ IF g.st # "ok"
                                THEN DecRes(g.st, <<>>, z.used + m.used + g.used)
                                ELSE The({ IF f.st # "ok"
                                           THEN DecRes(f.st, <<>>,
                                                       z.used + m.used + g.used + f.used)
                                           ELSE DecRes("ok",
                                                  [id |-> U32_MAX,
                                                   head |-> z.val, matrix |-> m.val,
                                                   segments |-> IF v >= 4 THEN g.val
                                                                ELSE <<>>,
                                                   flags |-> f.val],
                                                  z.used + m.used + g.used + f.used)
                                           : f \in { ReadValueMinVersion(
                                                       DecU32(Drop(b, z.used + m.used + g.used)),
                                                       5, v) } })
                                : g \in { ReadValueMinVersion(
                                            DecVecSegment(Drop(b, z.used + m.used), v),
                                            4, v) } })
                     : m \in { DecMatrix(Drop(b, z.used)) } })
          : z \in { DecZoneHead(b) } })

RECURSIVE DecField(_, _, _)
RECURSIVE DecFields(_, _, _)
RECURSIVE DecModeData(_, _)
RECURSIVE ReadValues(_, _, _, _)

\* Vec<T>: the u16 count, Vec::with_capacity(count), then that many
\* values
DecVec(t, b, v) ==
    The({ IF n.st # "ok" THEN DecRes(n.st, <<>>, n.used)
          ELSE IF VecAllocationFails(t, n.val)
          THEN DecRes("abort", <<>>, 2)
          ELSE The({ DecRes(r.st, r.val, 2 + r.used)
                     : r \in { ReadValues(t, Drop(b, 2), n.val, v) } })
          : n \in { DecU16(b) } })

\* one field of a struct: read_value::<T>(), and read_value_min_version(3)
\* for an Option<u32> that is on the wire from version 3 on
DecField(t, b, v) ==
    CASE t = "u16"        -> DecU16(b)
      [] t = "u32"        -> DecU32(b)
      [] t = "i32"        -> DecI32(b)
      [] t = "String"     -> DecString(b)
      [] t = "DeviceType" -> DecDeviceType(b)
      [] t = "ColorMode"  -> DecEnum(ColorModeTable, b)
      [] t = "FlagSet<ModeFlag>" -> DecFlagSet(b)
      [] t = "Vec<Color>" -> DecVecColor(b)
      [] t = "u32 from 3" -> ReadValueMinVersion(DecU32(b), 3, v)
      [] t = "ModeData"   -> DecModeData(b, v)
      [] t = "ZoneData"   -> DecZoneData(b, v)
      [] t = "Led"        -> DecFields(<<"String", "u32">>, b, v)
      [] t = "Vec<ZoneData>" -> DecVec("ZoneData", b, v)
      [] t = "Vec<Led>"   -> DecVec("Led", b, v)
      [] t = "Vec<String>" -> DecVec("String", b, v)
      [] t = "ProtocolOption<5, u32>" -> DecProtocolOption(5, b, v)
      [] t = "ProtocolOption<5, Vec<String>>" ->
             IF v < 5 THEN DecRes("ok", UnsupportedVersion, 0)
             ELSE The({ DecRes(n.st,
                               IF n.st = "ok" THEN Some(n.val)
                               ELSE UnsupportedVersion, n.used)
                        : n \in { DecVec("String", b, v) } })

\* n values read one after the other and pushed to the vector, the first
\* error returns
ReadValues(t, b, n, v) ==
    IF n = 0 THEN DecRes("ok", <<>>, 0)
    ELSE The({ IF h.st # "ok" THEN DecRes(h.st, <<>>, h.used)
               ELSE The({ DecRes(r.st,
                                 IF r.st = "ok" THEN <<h.val>> \o r.val ELSE <<>>,
                                 h.used + r.used)
                          : r \in { ReadValues(t, Drop(b, h.used), n - 1, v) } })
               : h \in { DecField(t, b, v) } })

\* ReceivedMessage::read_n_values: Vec::with_capacity(n), then n values
read_n_values(t, b, n, v) ==
    IF VecAllocationFails(t, n) THEN DecRes("abort", <<>>, 0)
    ELSE ReadValues(t, b, n, v)

\* the fields of a struct read one after the other, the first error
\* returns (the `?` after each read)
DecFields(types, b, v) ==
    IF types = <<>> THEN DecRes("ok", <<>>, 0)
    ELSE The({ IF h.st # "ok" THEN DecRes(h.st, <<>>, h.used)
               ELSE The({ DecRes(r.st,
                                 IF r.st = "ok" THEN <<h.val>> \o r.val ELSE <<>>,
                                 h.used + r.used)
                          : r \in { DecFields(Tail(types), Drop(b, h.used), v) } })
               : h \in { DecField(Head(types), b, v) } })

\* variant: one bit of the flag is enough
FlagSetContainsAny(set, flag) == FlagSetOf({flag}) \cap set # {}

\* flags.contains(flag): every bit of the flag is in the set
FlagSetContains(set, flag) == FlagSetOf({flag}) \subseteq set

\* the reads of ModeData::try_read, in the order of the code
ModeDataFields ==
    << "String", "i32", "FlagSet<ModeFlag>", "u32", "u32",
       "u32 from 3", "u32 from 3", "u32 from 3", "u32", "u32", "u32",
       "u32", "ColorMode", "Vec<Color>" >>
\* the variable each read is bound to
ModeDataNames ==
    << "name", "value", "flags", "speed_min", "speed_max",
       "brightness_min", "brightness_max", "brightness", "colors_min",
       "colors_max", "speed", "direction", "color_mode", "colors" >>

\* the position of a variable among the reads
ModeDataAt(names, n) == CHOOSE i \in 1..Len(names) : names[i] = n

\* the ModeData built from the values read (x, in the order of names):
\* <<mode>>, or <<>> when the direction is asked for and not declared
ModeDataOf(x, names, v) ==
    LET flags == x[ModeDataAt(names, "flags")]
        direction == x[ModeDataAt(names, "direction")]
        colors == x[ModeDataAt(names, "colors")]
        has_speed == FlagSetContains(flags, "HasSpeed")
        has_brightness == FlagSetContains(flags, "HasBrightness")
    IN IF FlagSetContains(flags, "HasDirection")
          /\ EnumTryFrom(DirectionTable, direction) = <<>>
       THEN <<>>
       ELSE << [ index |-> U32_MAX,
                 protocol_version |-> v,
                 name |-> x[ModeDataAt(names, "name")],
                 value |-> x[ModeDataAt(names, "value")],
                 flags |-> FlagSetBits(flags),
                 speed_min |-> IF has_speed
                               THEN x[ModeDataAt(names, "speed_min")] ELSE NONE,
                 speed_max |-> IF has_speed
                               THEN x[ModeDataAt(names, "speed_max")] ELSE NONE,
                 speed |-> IF has_speed
                           THEN x[ModeDataAt(names, "speed")] ELSE NONE,
                 brightness_min |-> IF has_brightness
                                    THEN x[ModeDataAt(names, "brightness_min")]
                                    ELSE NONE,
                 brightness_max |-> IF has_brightness
                                    THEN x[ModeDataAt(names, "brightness_max")]
                                    ELSE NONE,
                 brightness |-> IF has_brightness
                                THEN x[ModeDataAt(names, "brightness")]
                                ELSE NONE,
                 colors_min |-> IF colors = <<>> THEN NONE
                                ELSE x[ModeDataAt(names, "colors_min")],
                 colors_max |-> IF colors = <<>> THEN NONE
                                ELSE x[ModeDataAt(names, "colors_max")],
                 direction |-> IF FlagSetContains(flags, "HasDirection")
                               THEN direction ELSE NONE,
                 color_mode |-> EnumToU32(ColorModeTable,
                                          x[ModeDataAt(names, "color_mode")]),
                 colors |-> colors ] >>

\* ModeData::try_read on a stream of version v
DecModeData(b, v) ==
    The({ IF f.st # "ok" THEN DecRes(f.st, <<>>, f.used)
          ELSE IF ModeDataOf(f.val, ModeDataNames, v) = <<>>
          THEN DecRes("bad", <<>>, f.used)
          ELSE DecRes("ok", ModeDataOf(f.val, ModeDataNames, v)[1], f.used)
          : f \in { DecFields(ModeDataFields, b, v) } })

\* the reads of ControllerData::deserialize up to the modes, and after them
ControllerHeadFields ==
    << "u32", "DeviceType", "String", "String", "String", "String", "String",
       "String", "u16", "i32" >>
ControllerTailFields ==
    << "Vec<ZoneData>", "Vec<Led>", "Vec<Color>",
       "ProtocolOption<5, Vec<String>>", "ProtocolOption<5, u32>" >>

\* variant: the positions are counted from 1
IdxFromOne(i) == i

\* iter_mut().enumerate(): the idx of the i-th element of a list
Idx(i) == i - 1

\* Ok(ControllerData { .. }): the modes and the zones carry their position
ControllerDataOf(h, modes, r) ==
    [ device_type |-> h[2], name |-> h[3], vendor |-> h[4],
      description |-> h[5], version |-> h[6], serial |-> h[7],
      location |-> h[8], active_mode |-> h[10],
      modes |-> [i \in 1..Len(modes) |-> [modes[i] EXCEPT !.index = Idx(i)]],
      zones |-> [i \in 1..Len(r[1]) |-> [r[1][i] EXCEPT !.id = Idx(i)]],
      leds |-> r[2], colors |-> r[3], led_alt_names |-> r[4], flags |-> r[5],
      id |-> U32_MAX ]

\* DeserFromBuf for ControllerData
DecControllerData(b, v) ==
    The({ IF h.st # "ok" THEN DecRes(h.st, <<>>, h.used)
          ELSE The({ IF m.st # "ok" THEN DecRes(m.st, <<>>, h.used + m.used)
                     ELSE The({ IF r.st # "ok"
                                THEN DecRes(r.st, <<>>, h.used + m.used + r.used)
                                ELSE DecRes("ok",
                                            ControllerDataOf(h.val, m.val, r.val),
                                            h.used + m.used + r.used)
                                : r \in { DecFields(ControllerTailFields,
                                                    Drop(b, h.used + m.used), v) } })
                     : m \in { read_n_values("ModeData", Drop(b, h.used),
                                             h.val[9], v) } })
          : h \in { DecFields(ControllerHeadFields, b, v) } })

\* ------------------------------------------------------------------------
\* The codec under test.  A codec family is
\*   "buf"     SerToBuf into a WriteMessage, DeserFromBuf from a
\*             ReceivedMessage (stream2.rs)
\*   "stream"  Writable to a WritableStream through write_value, TryFromStream
\*             from a ReadableStream (stream.rs)
\* ------------------------------------------------------------------------
\* SerToBuf for [u8; N]: self.as_slice().serialize(buf), the slice written
\* as a sequence: the count as a u16, then the elements
SerArrayU8(a) == Enc(LE(Len(a) % U16_MOD, 2) \o a)

\* SerToBuf for Vec<u8>: write_u16(self.len() as u16), then the elements
SerVecU8(xs) == Enc(LE(Len(xs) % U16_MOD, 2) \o xs)

\* Writable for &[u8] (and Vec<u8>): u16::try_from(self.len()), then the
\* elements
WSliceU8(xs) ==
    IF Len(xs) >= U16_MOD THEN EncRes(FALSE, <<>>, 2 + Len(xs), FALSE)
    ELSE EncRes(TRUE, LE(Len(xs), 2) \o xs, 2 + Len(xs), FALSE)

\* Vec<u8>: u16 count followed by the elements
DecVecU8(b) ==
    The({ IF n.st # "ok" THEN DecRes(n.st, <<>>, n.used)
          ELSE IF VecAllocationFails("u8", n.val)
          THEN DecRes("abort", <<>>, 2)
          ELSE The({ DecRes(a.st, a.val, 2 + a.used)
                     : a \in { DecArray(Drop(b, 2), n.val) } })
          : n \in { DecU16(b) } })

\* the types a family encodes
EncodableTypes(family) ==
    IF family = "buf"
    THEN { "u8", "u16", "u32", "String", "Color", "Vec<Color>", "DeviceType",
           "ZoneType", "ColorMode", "PacketId", "SegmentData",
           "ProtocolOption<5, u32>", "[u8; 3]", "Vec<u8>" }
    ELSE { "u8", "u16", "u32", "i32", "String", "Color", "Vec<Color>",
           "(u32, Vec<Color>)", "ColorMode", "Direction", "FlagSet<ModeFlag>",
           "SegmentData", "ProtocolOption<5, u32>", "ModeData", "Vec<u8>" }

\* the types a family decodes
DecodableTypes(family) ==
    IF family = "buf"
    THEN { "u8", "u16", "u32", "String", "Color", "Vec<Color>", "DeviceType",
           "ZoneType", "ColorMode", "PacketId", "SegmentData",
           "ProtocolOption<5, u32>", "[u8; 3]", "Vec<u8>", "ControllerData",
           "(u32, Vec<PluginData>)" }
    ELSE { "u8", "u16", "u32", "i32", "String", "Color", "Vec<Color>",
           "(u32, Vec<Color>)", "ColorMode", "Direction", "FlagSet<ModeFlag>",
           "SegmentData", "ProtocolOption<5, u32>", "ZoneData", "ModeData",
           "Vec<u8>" }

\* value.serialize(buf), buf of version v
serialize(t, x, v) ==
    CASE t = "u8"          -> SerU8(x)
      [] t = "u16"         -> SerU16(x)
      [] t = "u32"         -> SerU32(x)
      [] t = "String"      -> SerStr(x)
      [] t = "Color"       -> SerColor(x)
      [] t = "Vec<Color>"  -> SerColors(x)
      [] t = "DeviceType"  -> SerEnum(DeviceTypeTable, x)
      [] t = "ZoneType"    -> SerEnum(ZoneTypeTable, x)
      [] t = "ColorMode"   -> SerEnum(ColorModeTable, x)
      [] t = "PacketId"    -> SerPacketId(x)
      [] t = "SegmentData" -> SerSegmentData(x, v)
      [] t = "ProtocolOption<5, u32>" -> SerProtocolOption(5, x, v)
      [] t = "[u8; 3]"     -> SerArrayU8(x)
      [] t = "Vec<u8>"     -> SerVecU8(x)

\* value.serialize(buf) as the build computes it: `self.len() as u16 + 1`
\* of SerToBuf for &str overflows when the cast gives 65535, which panics
\* in a build with overflow checks and wraps to 0 in a build without
\* (a String, and the name of a SegmentData from version 4 on, go through
\* it)
SerializeChecked(overflow_checks, t, x, v) ==
    LET strs == CASE t = "String" -> { x }
                  [] t = "SegmentData" /\ v >= 4 -> { x.name }
                  [] OTHER -> {}
    IN IF overflow_checks /\ \E s \in strs : (Len(s) % U16_MOD) + 1 >= U16_MOD
       THEN EncRes(FALSE, <<>>, 0, TRUE)
       ELSE serialize(t, x, v)

\* stream.write_value(&value), stream of version v
write_value(t, x, v) ==
    CASE t = "u8"          -> WU8(x)
      [] t = "u16"         -> WU16(x)
      [] t = "u32"         -> WU32(x)
      [] t = "i32"         -> WI32(x)
      [] t = "String"      -> WStr(x)
      [] t = "Color"       -> WColor(x)
      [] t = "Vec<Color>"  -> WSlice(x)
      [] t = "(u32, Vec<Color>)" -> WCat(WU32(x[1]), WSlice(x[2]))
      [] t = "ColorMode"   -> WEnum(ColorModeTable, x)
      [] t = "Direction"   -> WEnum(DirectionTable, x)
      [] t = "FlagSet<ModeFlag>" -> WFlagSet(x)
      [] t = "SegmentData" -> WSegmentData(x, v)
      [] t = "ProtocolOption<5, u32>" -> WProtocolOption(5, x, v)
      [] t = "ModeData"    -> WModeData(x, v)
      [] t = "Vec<u8>"     -> WSliceU8(x)

\* read_value::<T>() on a ReceivedMessage or a stream of version v that
\* holds the bytes b
read_value(t, b, v) ==
    CASE t = "u8"          -> DecU8(b)
      [] t = "u16"         -> DecU16(b)
      [] t = "u32"         -> DecU32(b)
      [] t = "i32"         -> DecI32(b)
      [] t = "String"      -> DecString(b)
      [] t = "Color"       -> DecColor(b)
      [] t = "Vec<Color>"  -> DecVecColor(b)
      [] t = "(u32, Vec<Color>)" -> DecU32VecColor(b)
      [] t = "DeviceType"  -> DecDeviceType(b)
      [] t = "ZoneType"    -> DecEnum(ZoneTypeTable, b)
      [] t = "ColorMode"   -> DecEnum(ColorModeTable, b)
      [] t = "Direction"   -> DecEnum(DirectionTable, b)
      [] t = "PacketId"    -> DecPacketId(b)
      [] t = "FlagSet<ModeFlag>" -> DecFlagSet(b)
      [] t = "SegmentData" -> DecSegmentData(b, v)
      [] t = "ProtocolOption<5, u32>" -> DecProtocolOption(5, b, v)
      [] t = "[u8; 3]"     -> DecArray(b, 3)
      [] t = "ZoneData"    -> DecZoneData(b, v)
      [] t = "ModeData"    -> DecModeData(b, v)
      [] t = "Vec<u8>"     -> DecVecU8(b)
      [] t = "ControllerData" -> DecControllerData(b, v)
      [] t = "(u32, Vec<PluginData>)" -> DecPlugins(b)

\* the elements of a sequence
Range(s) == { s[i] : i \in 1..Len(s) }

\* values of each type
StrEAcute == <<195, 169>>
StrWithNul == <<97, 0, 98>>
\* a string of 65535 bytes and a list of 65536 elements: one more than the
\* u16 count of the wire form can tell
StrLong == [i \in 1..(U16_MOD - 1) |-> 97]
VecU8Long == [i \in 1..U16_MOD |-> 0]

CodecValues(t) ==
    CASE t = "u8"          -> { 0, 37, 255 }
      [] t = "u16"         -> { 0, 5, 65535 }
      [] t = "u32"         -> { 0, 8, 2147483647 }
      [] t = "i32"         -> { 0, 46, -1, -2147483647 }
      [] t = "String"      -> { <<>>, StrTest, StrEAcute, StrWithNul, StrLong }
      [] t = "Vec<u8>"     -> { <<>>, <<1, 2>>, VecU8Long }
      [] t = "Color"       -> { ColorA, ColorB }
      [] t = "Vec<Color>"  -> { <<>>, <<ColorA>>, <<ColorA, ColorB>> }
      [] t = "[u8; 3]"     -> { <<0, 1, 2>>, <<3, 0, 3>>, <<255, 255, 255>> }
      [] t = "(u32, Vec<Color>)" -> { <<ZoneArg, <<ColorA>>>>, <<0, <<>>>> }
      [] t = "DeviceType"  -> Range(DeviceTypeTable)
      [] t = "ZoneType"    -> Range(ZoneTypeTable)
      [] t = "ColorMode"   -> Range(ColorModeTable)
      [] t = "Direction"   -> Range(DirectionTable)
      [] t = "PacketId"    -> PacketIdValues
      [] t = "FlagSet<ModeFlag>" ->
             { {}, FlagSetOf({"HasSpeed"}), FlagSetOf({"HasDirection"}),
               FlagSetOf({"HasDirectionLR", "HasDirectionHV", "HasBrightness",
                          "HasRandomColor"}),
               FlagSetOf({"HasDirection", "HasSpeed", "HasBrightness"}),
               SingleFlags }
      [] t = "SegmentData" ->
             { SegmentArg,
               [name |-> <<>>, seg_type |-> -1, start_idx |-> 3, led_count |-> 0],
               [name |-> StrLong, seg_type |-> 1, start_idx |-> 0, led_count |-> 4] }
      [] t = "ProtocolOption<5, u32>" -> { Some(7), UnsupportedVersion }
      [] t = "ModeData"    -> { ModeArg(pv) : pv \in ModeVersions }

\* the bytes of a zone (test_read_001, test_read_002 of zone.rs): the fields
\* up to the matrix, then what follows the matrix at version v
ZoneHead == SerStr(StrTest).bytes \o LE(1, 4) \o LE(3, 4) \o LE(18, 4) \o LE(15, 4)
ZoneTail(v) ==
    (IF v >= 4 THEN LE(1, 2) \o SerSegmentData(SegmentArg, v).bytes ELSE <<>>)
    \o (IF v >= 5 THEN LE(0, 4) ELSE <<>>)
ZoneNoMatrix(v) == ZoneHead \o LE(0, 2) \o ZoneTail(v)
ZoneMatrix(v) ==
    ZoneHead \o LE(32, 2) \o LE(2, 4) \o LE(3, 4)
    \o LE(0, 4) \o LE(1, 4) \o LE(2, 4) \o LE(3, 4) \o LE(4, 4) \o LE(5, 4)
    \o ZoneTail(v)
\* a matrix of 2147483647 rows and columns is announced and the bytes end
ZoneHugeMatrix == ZoneHead \o LE(8, 2) \o LE(2147483647, 4) \o LE(2147483647, 4)
\* a matrix of h rows and w columns is announced, two cells follow
ZoneLargeMatrix(h, w) ==
    ZoneHead \o LE(8, 2) \o LE(h, 4) \o LE(w, 4) \o LE(1, 4) \o LE(2, 4)
\* zones whose matrix is of 2^62, 2^60 and 2^31 cells
HugeZones(v) ==
    { ZoneHugeMatrix \o ZoneTail(v),
      ZoneLargeMatrix(1073741824, 1073741824) \o ZoneTail(v),
      ZoneLargeMatrix(65536, 32768) \o ZoneTail(v) }

\* the bytes of a segment: name "test", seg_type 1, start_idx 0, led_count 4
SegmentBytes == LE(5, 2) \o StrTest \o <<0>> \o LE(1, 4) \o LE(0, 4) \o LE(4, 4)

\* the bytes of a mode as the tests of mode.rs lay them out (test_read_001,
\* test_read_002, test_read_003): name "test", value 46, flags, speed_min
\* 10, speed_max 1000, brightness_min 1, brightness_max 1024 (when the
\* brightness is on the wire), colors_min 0, colors_max 256, speed 51,
\* brightness 512 (likewise), direction, color_mode 1, colors
ModeWire(flags, direction, colors, with_brightness) ==
    LE(5, 2) \o StrTest \o <<0>> \o LEI32(46) \o LE(flags, 4)
    \o LE(10, 4) \o LE(1000, 4)
    \o (IF with_brightness THEN LE(1, 4) \o LE(1024, 4) ELSE <<>>)
    \o LE(0, 4) \o LE(256, 4) \o LE(51, 4)
    \o (IF with_brightness THEN LE(512, 4) ELSE <<>>)
    \o LE(direction, 4) \o LE(1, 4) \o SerColors(colors).bytes

\* flags, directions and colors of the modes handed to the decoder
ModeWireFlags == {0, 1, 2, 16, 31}
ModeWireDirections == {4, 100}
ModeWireColors == { <<>>, <<ColorA, ColorB>> }

\* the payload of a reply to RequestControllerData at version v: data
\* size, device type 8, six strings, the number of modes, active mode 0,
\* the modes, the zones (the two zones of the tests of zone.rs in turn),
\* one LED, one color, and from version 5 on one alternate name and the
\* flags
RECURSIVE ControllerModes(_, _)
ControllerModes(n, v) ==
    IF n = 0 THEN <<>>
    ELSE ModeWire(31, 4, <<ColorA, ColorB>>, v >= 3) \o ControllerModes(n - 1, v)
RECURSIVE ControllerZones(_, _)
ControllerZones(n, v) ==
    IF n = 0 THEN <<>>
    ELSE (IF n % 2 = 0 THEN ZoneNoMatrix(v) ELSE ZoneMatrix(v))
         \o ControllerZones(n - 1, v)
\* the payload up to the modes: num_modes modes are announced
ControllerHead(num_modes) ==
    LE(0, 4) \o LE(8, 4)
    \o SerStr(StrTest).bytes \o SerStr(StrTest).bytes \o SerStr(<<>>).bytes
    \o SerStr(StrTest).bytes \o SerStr(StrTest).bytes \o SerStr(StrTest).bytes
    \o LE(num_modes, 2) \o LEI32(0)
ControllerOfZones(num_modes, num_zones, zones, v) ==
    ControllerHead(num_modes) \o ControllerModes(num_modes, v)
    \o LE(num_zones, 2) \o zones
    \o LE(1, 2) \o SerStr(StrTest).bytes \o LE(7, 4)
    \o SerColors(<<ColorA>>).bytes
    \o (IF v >= 5 THEN LE(1, 2) \o SerStr(StrTest).bytes \o LE(0, 4) ELSE <<>>)
ControllerWire(num_modes, num_zones, v) ==
    ControllerOfZones(num_modes, num_zones, ControllerZones(num_zones, v), v)

\* numbers of modes and zones of the controllers
ControllerSizes == {0, 1, 3}

\* the strict prefixes of a byte sequence
Prefixes(b) == { Take(b, n) : n \in 0..(Len(b) - 1) }

Raw(family, t, bytes, incomplete) ==
    [family |-> family, t |-> t, bytes |-> bytes, incomplete |-> incomplete]

\* byte slices handed to a decoder of version v: complete values, values
\* that are not declared, and slices that end before the value does (among
\* them controllers and plugin lists that announce so many modes, zones
\* and plugins that the vector is of 4 MiB and of just more)
RawSlices(v) ==
    { Raw(f, "String", b, FALSE) :
        f \in {"buf", "stream"},
        b \in { LE(5, 2) \o StrTest \o <<0>>, LE(3, 2) \o <<255, 254, 0>>,
                LE(3, 2) \o <<195, 40, 0>>, LE(0, 2) } }
    \cup { Raw("buf", t, LE(n, 4), FALSE) :
             t \in {"DeviceType", "ZoneType", "ColorMode", "PacketId"},
             n \in {8, 14, 100, 2147483647} }
    \cup { Raw("stream", t, LE(n, 4), FALSE) :
             t \in {"ColorMode", "Direction"}, n \in {3, 6, 100} }
    \cup { Raw("stream", "FlagSet<ModeFlag>", LE(n, 4), FALSE) :
             n \in {0, 31, 154, 1023, 1024, 1178, 2147483647} }
    \cup { Raw(f, "SegmentData", SegmentBytes, FALSE) : f \in {"buf", "stream"} }
    \cup { Raw("stream", "ModeData", ModeWire(f, d, cs, v >= 3), FALSE) :
             f \in ModeWireFlags, d \in ModeWireDirections,
             cs \in ModeWireColors }
    \cup { Raw("buf", "ControllerData", ControllerWire(nm, nz, v), FALSE) :
             nm \in ControllerSizes, nz \in ControllerSizes }
    \cup { Raw("buf", "ControllerData", b, TRUE) :
             b \in Prefixes(ControllerWire(1, 1, v)) }
    \cup { Raw("buf", "ControllerData", b, TRUE) :
             b \in { ControllerHead(65535), ControllerHead(30841),
                     ControllerHead(30840), ControllerHead(0) \o LE(65535, 2),
                     ControllerHead(0) \o LE(34953, 2),
                     ControllerHead(0) \o LE(34952, 2) } }
    \cup { Raw("buf", "(u32, Vec<PluginData>)", PluginsBody, FALSE) }
    \cup { Raw("buf", "(u32, Vec<PluginData>)", PluginsAnnounced(n), TRUE) :
             n \in {65535, 52429, 52428} }
    \cup { Raw("buf", "[u8; 3]", b, Len(b) < 3) :
             b \in { <<0, 1, 2, 3, 4, 5>>, <<0, 1, 2>>, <<0, 1>>, <<>> } }
    \cup { Raw("stream", "ZoneData", b, FALSE) :
             b \in { ZoneNoMatrix(v), ZoneMatrix(v) } }
    \cup { Raw("stream", "ZoneData", b, TRUE) :
             b \in Prefixes(ZoneNoMatrix(v)) \cup Prefixes(ZoneMatrix(v))
                   \cup { ZoneHugeMatrix,
                          ZoneLargeMatrix(1073741824, 1073741824),
                          ZoneLargeMatrix(1518500249, 1518500249),
                          ZoneLargeMatrix(1073741824, 2147483647),
                          ZoneLargeMatrix(65536, 65536),
                          ZoneLargeMatrix(65536, 32768),
                          ZoneLargeMatrix(46341, 46341),
                          ZoneLargeMatrix(65536, 16384),
                          ZoneLargeMatrix(1024, 1024),
                          ZoneLargeMatrix(1024, 1025) } }

NoEnc == EncRes(FALSE, <<>>, 0, FALSE)
NoDec == DecRes("none", <<>>, 0)

\* a value to encode and a slice to decode
ValueInput(f, t, x, v, overflow_checks) ==
    [stage |-> "value", family |-> f, t |-> t, val |-> x, v |-> v,
     origin |-> "value", bytes |-> <<>>, incomplete |-> FALSE,
     enc |-> NoEnc, dec |-> NoDec, overflow_checks |-> overflow_checks]
SliceInput(r, v) ==
    [stage |-> "slice", family |-> r.family, t |-> r.t, val |-> <<>>,
     v |-> v, origin |-> "raw", bytes |-> r.bytes,
     incomplete |-> r.incomplete, enc |-> NoEnc, dec |-> NoDec,
     overflow_checks |-> FALSE]

InitCodec ==
    /\ InitSession
    /\ stream_kind = "Stream2"
    /\ server_version = 0
    /\ scenario = "codec"
    /\ command = NoCommand
    /\ alloc_mib \in AllocMiB
    /\ \E v \in 0..MaxServerVersion :
         \/ \E f \in {"buf", "stream"} : \E t \in EncodableTypes(f) :
              \E x \in CodecValues(t) : \E oc \in BOOLEAN :
                /\ oc => (f = "buf" /\ t \in {"String", "SegmentData"})
                /\ codec = ValueInput(f, t, x, v, oc)
         \/ \E r \in RawSlices(v) : codec = SliceInput(r, v)

session_vars ==
    <<config, alive, eof, session, protocol_id, stream_version, lock_owner,
      waiters, pc, op, res, hdr_len, wrote, nread, calls, net, rx, inbuf, packets, requests,
      abandoned_at, orphan_unread>>

\* the value is encoded at version v
EncodeValue ==
    /\ codec.stage = "value"
    /\ codec.t \in EncodableTypes(codec.family)
    /\ LET e == IF codec.family = "buf"
                THEN SerializeChecked(codec.overflow_checks, codec.t,
                                      codec.val, codec.v)
                ELSE write_value(codec.t, codec.val, codec.v)
       IN codec' = [codec EXCEPT !.stage = "encoded", !.enc = e,
                                 !.bytes = e.bytes]
    /\ UNCHANGED <<session_vars, command>>

\* the encoded bytes reach the decoder cut short (an array is decoded from
\* its N elements: N bytes of a [u8; N] are a complete value)
TruncateSlice ==
    /\ codec.stage = "encoded"
    /\ codec.enc.ok /\ ~codec.enc.panic
    /\ Len(codec.bytes) <= MaxSliceLen
    /\ \E n \in 0..(Len(codec.bytes) - 1) :
         codec' = [codec EXCEPT !.stage = "slice", !.origin = "truncated",
                                !.bytes = Take(codec.bytes, n),
                                !.incomplete = (codec.t = "[u8; 3]" => n < 3)]
    /\ UNCHANGED <<session_vars, command>>

\* the bytes are decoded at version v
DecodeValue ==
    /\ codec.stage \in {"encoded", "slice"}
    /\ codec.stage = "encoded" => (codec.enc.ok /\ ~codec.enc.panic)
    /\ codec.t \in DecodableTypes(codec.family)
    /\ codec' = [codec EXCEPT !.stage = "decoded",
                              !.dec = read_value(codec.t, codec.bytes, codec.v)]
    /\ UNCHANGED <<session_vars, command>>

NextCodec ==
    \/ EncodeValue
    \/ TruncateSlice
    \/ DecodeValue

SpecCodec == InitCodec /\ [][NextCodec]_vars

\* ------------------------------------------------------------------------
\* LED update commands (client/command.rs).  A controller is the list of
\* its zones; a zone is its leds_count and its segments (a ProtocolOption);
\* a segment is its start_idx and led_count.  Ids count from 0.
\* ------------------------------------------------------------------------
\* Color::default()
ColorDefault == [r |-> 0, g |-> 0, b |-> 0]

CommandError == [kind |-> "CommandError"]

ZoneOf(leds_count, segments) == [leds_count |-> leds_count, segments |-> segments]
SegmentOf(start_idx, led_count) == [start_idx |-> start_idx, led_count |-> led_count]

\* the UpdateCommand variants; a field a variant does not have is 0, and
\* the color of Single is a list of one
CmdController(colors) ==
    [kind |-> "Controller", zone_id |-> 0, segment_id |-> 0, led_id |-> 0,
     colors |-> colors]
CmdZone(zone_id, colors) ==
    [kind |-> "Zone", zone_id |-> zone_id, segment_id |-> 0, led_id |-> 0,
     colors |-> colors]
CmdSegment(zone_id, segment_id, colors) ==
    [kind |-> "Segment", zone_id |-> zone_id, segment_id |-> segment_id,
     led_id |-> 0, colors |-> colors]
CmdSingle(led_id, color) ==
    [kind |-> "Single", zone_id |-> 0, segment_id |-> 0, led_id |-> led_id,
     colors |-> <<color>>]

\* Vec::resize(len, value)
Resize(xs, len, value) ==
    [i \in 1..len |-> IF i <= Len(xs) THEN xs[i] ELSE value]

\* variant: the buffer is resized to the end of the write
set_colors_resizing(buf, offset, colors) ==
    [i \in 1..(offset + Len(colors)) |->
        IF i > offset THEN colors[i - offset]
        ELSE IF i <= Len(buf) THEN buf[i] ELSE ColorDefault]

\* UpdateLedCommand::set_colors
set_colors(buf, offset, colors) ==
    LET len == offset + Len(colors)
        resized == IF Len(buf) < len THEN Resize(buf, len, ColorDefault) ELSE buf
    IN [i \in 1..Len(resized) |->
          IF i > offset /\ i <= len THEN colors[i - offset] ELSE resized[i]]

\* zones.iter().enumerate().filter(idx < zone_id).map(leds_count).sum(),
\* from position idx on
RECURSIVE SumLedsCount(_, _, _)
SumLedsCount(zones, idx, zone_id) ==
    IF idx >= Len(zones) THEN 0
    ELSE (IF idx < zone_id THEN zones[idx + 1].leds_count ELSE 0)
         + SumLedsCount(zones, idx + 1, zone_id)

\* Controller::get_zone_led_offset
get_zone_led_offset(zones, zone_id) ==
    IF zone_id >= Len(zones) THEN ProtocolError
    ELSE Ok(SumLedsCount(zones, 0, zone_id))

\* Controller::get_zone: the zone handle, here its id
get_zone(zones, zone_id) ==
    IF zone_id >= Len(zones) THEN CommandError ELSE Ok(zone_id)

\* Zone::get_segment: the segment handle, here its id
get_segment(zone, segment_id) ==
    IF zone.segments.some /\ segment_id < Len(zone.segments.val)
    THEN Ok(segment_id)
    ELSE CommandError

\* Zone::num_leds
ZoneNumLeds(zone) == zone.leds_count

\* Zone::offset
ZoneOffset(zones, zone_id) == get_zone_led_offset(zones, zone_id).val

\* Segment::offset
SegmentOffset(zone, segment_id) == zone.segments.val[segment_id + 1].start_idx

\* the result and the buffer of a step of add_command
Added(r, colors) == [res |-> r, colors |-> colors]

\* UpdateLedCommand::add_command on the buffer buf of a command for the
\* controller with these zones
add_command(zones, buf, cmd) ==
    CASE cmd.kind = "Controller" ->
           Added(Ok(<<>>), set_colors(buf, 0, cmd.colors))
      [] cmd.kind = "Zone" ->
           IF get_zone(zones, cmd.zone_id).kind # "Ok"
           THEN Added(get_zone(zones, cmd.zone_id), buf)
           ELSE IF get_zone_led_offset(zones, cmd.zone_id).kind # "Ok"
           THEN Added(get_zone_led_offset(zones, cmd.zone_id), buf)
           ELSE Added(Ok(<<>>),
                      set_colors(buf, get_zone_led_offset(zones, cmd.zone_id).val,
                                 Take(cmd.colors,
                                      Min(Len(cmd.colors),
                                          ZoneNumLeds(zones[cmd.zone_id + 1])))))
      [] cmd.kind = "Segment" ->
           IF get_zone(zones, cmd.zone_id).kind # "Ok"
           THEN Added(get_zone(zones, cmd.zone_id), buf)
           ELSE IF get_segment(zones[cmd.zone_id + 1], cmd.segment_id).kind # "Ok"
           THEN Added(get_segment(zones[cmd.zone_id + 1], cmd.segment_id), buf)
           ELSE Added(Ok(<<>>),
                      set_colors(buf,
                                 ZoneOffset(zones, cmd.zone_id)
                                 + SegmentOffset(zones[cmd.zone_id + 1],
                                                 cmd.segment_id),
                                 cmd.colors))
      [] cmd.kind = "Single" ->
           Added(Ok(<<>>), set_colors(buf, cmd.led_id, cmd.colors))

\* the controllers commands are built for: one without zones, one of two
\* zones (2 and 3 LEDs, the second with two segments), one of three zones
\* (1, 0 and 2 LEDs, the first from a server below version 4)
ControllerLayouts ==
    { <<>>,
      << ZoneOf(2, Some(<<>>)),
         ZoneOf(3, Some(<< SegmentOf(1, 2), SegmentOf(0, 1) >>)) >>,
      << ZoneOf(1, UnsupportedVersion),
         ZoneOf(0, Some(<< SegmentOf(0, 0) >>)),
         ZoneOf(2, Some(<<>>)) >> }

\* the color lists of the commands
ColorLists ==
    { <<>>, <<ColorA, ColorB>>, <<ColorB, ColorA, ColorA, ColorB>> }

\* the commands added
Commands ==
    { CmdController(cs) : cs \in ColorLists \ {<<>>} }
    \cup { CmdZone(z, cs) : z \in 0..2, cs \in ColorLists }
    \cup { CmdSegment(z, g, <<ColorA, ColorB, ColorB>>) : z \in 0..1, g \in 0..1 }
    \cup { CmdSingle(l, ColorB) : l \in {0, 6} }

\* UpdateLedCommand::new
NewCommand(zones) ==
    [stage |-> "building", zones |-> zones, colors |-> <<>>, log |-> <<>>]

InitCommand ==
    /\ InitSession
    /\ stream_kind = "Stream2"
    /\ server_version = 0
    /\ scenario = "command"
    /\ codec = NoCodec
    \* no bytes are decoded
    /\ alloc_mib = 134217728
    /\ \E zones \in ControllerLayouts : command = NewCommand(zones)

\* add_command(cmd); the log keeps the commands, their results and the
\* length of the buffer after each
AddCommand ==
    /\ command.stage = "building"
    /\ Len(command.log) < MaxCommands
    /\ \E cmd \in Commands :
         command' =
            The({ [command EXCEPT
                     !.colors = a.colors,
                     !.log = Append(@, [cmd |-> cmd, res |-> a.res,
                                        len |-> Len(a.colors)])]
                  : a \in { add_command(command.zones, command.colors, cmd) } })
    /\ UNCHANGED <<session_vars, codec>>

NextCommand == AddCommand

SpecCommand == InitCommand /\ [][NextCommand]_vars

\* ------------------------------------------------------------------------
\* Properties
\* ------------------------------------------------------------------------

\* C1: for every server-advertised version S, a successful negotiation has
\* sent exactly one RequestProtocolVersion packet (device id 0, payload the
\* client's DEFAULT_PROTOCOL as u32) and the session's version is
\* min(DEFAULT_PROTOCOL, S); it never exceeds DEFAULT_PROTOCOL.
C1_NegotiatedVersion ==
    session = "Negotiated" =>
        LET max == IF stream_kind = "Stream2" THEN DEFAULT_PROTOCOL
                   ELSE CLIENT_DEFAULT_PROTOCOL
        IN /\ wrote[0] = <<79, 82, 71, 66>> \o <<0, 0, 0, 0>> \o <<40, 0, 0, 0>>
                         \o <<4, 0, 0, 0>> \o <<max, 0, 0, 0>>
           /\ protocol_id = (IF server_version < max THEN server_version ELSE max)
           /\ protocol_id <= max

C1_Witness ==
    /\ session = "Negotiated"
    /\ stream_kind = "Stream2"
    /\ server_version = 3
    /\ protocol_id = 3

\* C2: while a caller is between the first byte of its request and the last
\* byte of its response (or between the header and the payload of a
\* fire-and-forget packet), no other caller writes or reads a byte on the
\* transport.
C2_ExchangeAtomic ==
    [][\A c \in Callers :
          (pc[c] \in {"wpay", "rhdr", "rpay"}
              \/ (pc[c] = "whdr" /\ wrote[c] # <<>>)) =>
              \A q \in Callers \ {c} :
                  /\ Len(wrote'[q]) <= Len(wrote[q])
                  /\ nread'[q] <= nread[q]]_vars

C2_Witness ==
    \E c \in Callers : \E q \in Callers \ {c} :
        /\ pc[c] = "rhdr"
        /\ Len(wrote[c]) >= HEADER_SIZE
        /\ pc[q] = "wait"
        /\ wrote[q] = <<>>

\* C3: a version-gated operation with required version R called on a session
\* of version V < R returns UnsupportedOperation carrying R and V, writes
\* nothing and does not touch the session lock; with V >= R the gate does
\* not reject the call.
C3_VersionGate ==
    [][\A c \in Callers :
          calls'[c] # calls[c] =>
              LET n == op'[c].name
                  R == CASE n \in {"get_profiles", "load_profile", "save_profile",
                                   "delete_profile"} -> 2
                         [] n = "save_mode" -> 3
                         [] n \in {"get_plugins", "plugin_specific_command"} -> 4
                         [] n \in {"add_segment", "clear_segments",
                                   "rescan_devices"} -> 5
                         [] OTHER -> 0
              IN IF protocol_id < R
                 THEN /\ res'[c].kind = "UnsupportedOperation"
                      /\ res'[c].min_protocol_version = R
                      /\ res'[c].current_protocol_version = protocol_id
                      /\ pc'[c] = "done"
                      /\ wrote'[c] = <<>>
                      /\ lock_owner' = lock_owner
                      /\ waiters' = waiters
                 ELSE /\ res'[c].kind # "UnsupportedOperation"
                      /\ \/ pc'[c] \in {"whdr", "wait"}
                         \* not gated; its body is unimplemented!()
                         \/ n = "set_custom_mode"]_vars

C3_Witness ==
    /\ protocol_id = 2
    /\ op[1].name = "save_mode"
    /\ res[1] = [kind |-> "UnsupportedOperation", min_protocol_version |-> 3,
                 current_protocol_version |-> 2]
    /\ wrote[1] = <<>>

\* C4: once the session is negotiated, the version the stream hands to its
\* write buffer and read cursor equals the session's protocol_id, for every
\* server-advertised version.
C4_StreamVersionInSync ==
    session = "Negotiated" =>
        /\ StreamProtocolVersion = protocol_id
        /\ WriteVersion = protocol_id

\* C5: every write_packet that has come to its end on a working transport
\* with bytes on the wire (it returned Ok, it returned an error of its own,
\* its task panicked, or the call went on to read the reply) has put on the
\* wire exactly 16 header bytes (magic "ORGB", device id, packet id, payload
\* length, each u32 LE) followed by exactly `payload length` payload bytes;
\* the length does not count the header.  set_name("test") gives device
\* 0, id 50, length 5, "test\0".
C5_PacketLayout ==
    \A p \in Procs :
        (/\ op[p].name # "none"
         /\ \/ pc[p] \in {"rhdr", "rpay"}
            \/ pc[p] = "done" /\ res[p].kind \in {"Ok", "ProtocolError", "IoError"}
                              /\ op[p].kind = "request" /\ nread[p] > 0
            \/ pc[p] = "done" /\ res[p].kind = "Ok"
            \/ pc[p] = "done" /\ res[p].kind \in {"Panic", "ProtocolError"}
                              /\ wrote[p] # <<>>) =>
            /\ Len(wrote[p]) >= 16
            /\ SubSeq(wrote[p], 1, 4) = <<79, 82, 71, 66>>
            /\ FromLE(SubSeq(wrote[p], 5, 8)) = op[p].dev
            /\ FromLE(SubSeq(wrote[p], 9, 12)) = op[p].pid
            /\ FromLE(SubSeq(wrote[p], 13, 16)) = Len(wrote[p]) - 16
            /\ SubSeq(wrote[p], 17, Len(wrote[p])) = op[p].data.bytes
            /\ (op[p].name = "set_name" =>
                   wrote[p] = <<79, 82, 71, 66, 0, 0, 0, 0, 50, 0, 0, 0, 5, 0, 0, 0,
                                116, 101, 115, 116, 0>>)

\* C6: a successful read_packet has consumed exactly the 16 header bytes
\* plus the number of bytes of the header's payload-length field.
C6_ReadConsumesPacket ==
    \A p \in Procs :
        (pc[p] = "done" /\ res[p].kind = "Ok" /\ op[p].kind = "request") =>
            nread[p] = HEADER_SIZE + hdr_len[p]

\* C7: a response header with a wrong magic, a device id other than the
\* request's, a packet id outside the PacketId enumeration or a packet id
\* other than the request's ends the read with a ProtocolError; the payload
\* is not read or decoded.
C7_BadHeaderRejected ==
    [][\A p \in Procs :
          LET b == inbuf[p] \o rx
          IN (/\ pc[p] = "rhdr"
              /\ pc'[p] \notin {"rhdr", "abandoned"}
              /\ Len(b) >= 16
              /\ \/ SubSeq(b, 1, 4) # <<79, 82, 71, 66>>
                 \/ FromLE(SubSeq(b, 5, 8)) # op[p].dev
                 \/ FromLE(SubSeq(b, 9, 12)) \notin PacketIdValues
                 \/ FromLE(SubSeq(b, 9, 12)) # op[p].pid) =>
                 /\ res'[p].kind = "ProtocolError"
                 /\ pc'[p] = "done"
                 /\ nread'[p] <= 16]_vars

C7_Witness ==
    /\ stream_kind = "Stream2"
    /\ pc[1] = "done"
    /\ res[1].kind = "ProtocolError"
    /\ nread[1] = 16
    /\ rx # <<>>

\* C8: a fire-and-forget operation reads no byte and never waits for a
\* reply; its steps leave the bytes received and the pending requests as
\* they are; when it returns Ok it has written exactly one packet.
C8_FireAndForget ==
    [][\A c \in Callers :
          op'[c].name \in {"set_name", "resize_zone", "update_led", "update_leds",
                           "update_zone_leds", "update_mode", "save_mode",
                           "load_profile", "save_profile", "delete_profile",
                           "add_segment", "clear_segments", "rescan_devices"} =>
              /\ nread'[c] = 0
              /\ pc'[c] \notin {"rhdr", "rpay"}
              /\ (pc'[c] # pc[c] => rx' = rx /\ requests' = requests)
              /\ (pc'[c] = "done" /\ res'[c].kind = "Ok" =>
                     /\ Len(wrote'[c]) >= 16
                     /\ Len(wrote'[c]) = 16 + FromLE(SubSeq(wrote'[c], 13, 16)))]_vars

C8_Witness ==
    /\ stream_kind = "Stream2"
    /\ op[1].name = "update_leds"
    /\ pc[1] = "done"
    /\ res[1].kind = "Ok"
    /\ nread[1] = 0
    /\ Len(wrote[1]) = 30

\* C9: a caller that drops a request after writing it and before its
\* response is read keeps the exclusion region: as long as the response is
\* unread and the transport works, the lock stays with that caller.
C9_AbandonedKeepsLock ==
    \A c \in Callers : (orphan_unread[c] /\ alive) => lock_owner = c

\* C10 (as stated): a connection attempt whose server never responds fails;
\* in particular every connection attempt comes to an end.
C10_AttemptEnds == <>(pc[0] = "done")

\* C10 (amended): a failure to open the connection fails the attempt with a
\* ConnectionError; any other failure of the attempt leaves no session; and
\* as long as the attempt has not returned (a server that never responds:
\* the core has no timeout) no session exists.  A session exists only after
\* the whole reply was read.
C10_NoPartialSession ==
    /\ (pc[0] = "done" /\ stream_version = NONE =>
            res[0].kind = "ConnectionError" /\ session = "Failed")
    /\ (pc[0] = "done" /\ res[0].kind # "Ok" =>
            session = "Failed" /\ protocol_id = NONE)
    /\ (pc[0] # "done" => session = "Connecting" /\ protocol_id = NONE)
    /\ (session = "Negotiated" =>
            res[0].kind = "Ok" /\ nread[0] >= HEADER_SIZE + 4)

C10_Witness ==
    /\ session = "Failed"
    /\ ~alive
    /\ Len(wrote[0]) = 20
    /\ nread[0] = 0
    /\ res[0].kind \notin {"Ok", "None", "ConnectionError"}

\* C11: once an operation on the session has returned a transport I/O
\* error, no later operation on the session or on one of its clones
\* completes successfully.
C11_ErrorInvalidatesSession ==
    [][\A c \in Callers :
          (/\ \E q \in Callers : pc[q] = "done" /\ res[q].kind = "IoError"
           /\ pc[c] # "done"
           /\ pc'[c] = "done") =>
              res'[c].kind # "Ok"]_vars

\* C12: once new() has returned, get_protocol_version() of the session and
\* of every clone keeps returning the negotiated value, whatever the
\* operations do.
C12_VersionImmutable ==
    [][session = "Negotiated" =>
          /\ session' = "Negotiated"
          /\ \A c \in Callers :
                /\ get_protocol_version(c)' = get_protocol_version(c)
                /\ get_protocol_version(c)' =
                       Negotiate(DefaultProtocol(stream_kind), server_version)
                /\ \A q \in Callers :
                       get_protocol_version(q) = get_protocol_version(c)]_vars

C12_Witness ==
    /\ session = "Negotiated"
    /\ \E c \in Callers : \E q \in Callers \ {c} :
          /\ pc[c] = "done" /\ op[c].name = "get_controller_count"
          /\ res[c] = Ok(2)
          /\ pc[q] = "done" /\ res[q].kind = "IoError"
          /\ get_protocol_version(c) = DefaultProtocol(stream_kind)
\* C13: for each type with an encoder and a decoder, decoding at version V
\* the bytes that encoding a value at V produced gives the value back and
\* consumes exactly the encoded bytes (a string, on its own or as the name
\* of a segment, whose bytes and terminator the u16 count can tell; C27 is
\* about the longer ones).
C13_RoundTrip ==
    (/\ codec.stage = "decoded"
     /\ codec.origin = "value"
     /\ codec.t \in { "u8", "u16", "u32", "i32", "String", "Vec<Color>",
                      "(u32, Vec<Color>)", "Color", "DeviceType", "ZoneType",
                      "ColorMode", "Direction", "PacketId", "FlagSet<ModeFlag>",
                      "SegmentData" }
     /\ codec.t = "String" => Len(codec.val) + 1 < U16_MOD
     /\ codec.t = "SegmentData" => Len(codec.val.name) + 1 < U16_MOD)
    => /\ codec.bytes = codec.enc.bytes
       /\ codec.dec.st = "ok"
       /\ codec.dec.val = codec.val
       /\ codec.dec.used = Len(codec.bytes)

\* a segment encoded at version 4 has been decoded again
C13_Witness ==
    /\ codec.stage = "decoded"
    /\ codec.origin = "value"
    /\ codec.t = "SegmentData"
    /\ codec.v = 4
    /\ codec.family = "buf"
    /\ codec.val = SegmentArg
    /\ codec.dec = DecRes("ok", SegmentArg, Len(StrTest) + 15)

\* C14: for every value that write_value writes without an error at a
\* stream version V, size() equals the number of bytes written and the
\* assertion of write_value holds.
C14_SizeAgreement ==
    (/\ codec.stage = "encoded"
     /\ codec.family = "stream"
     /\ codec.enc.ok)
    => /\ ~codec.enc.panic
       /\ codec.enc.size = Len(codec.enc.bytes)

\* C15: for ProtocolOption<5, u32> at a version V: below 5 the encoder
\* writes no byte for Some(x) and for UnsupportedVersion, and the decoder
\* reads no byte and returns UnsupportedVersion; from 5 on Some(x) is
\* encoded as x and the decoder reads one u32 and returns Some of it.
C15_VersionGated ==
    (codec.stage # "none" /\ codec.t = "ProtocolOption<5, u32>")
    => /\ (codec.origin # "raw" /\ codec.stage # "value" /\ codec.v < 5)
            => codec.enc.ok /\ codec.enc.bytes = <<>>
       /\ (codec.origin # "raw" /\ codec.stage # "value" /\ codec.v >= 5
            /\ codec.val.some)
            => codec.enc.ok /\ codec.enc.bytes = LE(codec.val.val, 4)
       /\ (codec.stage = "decoded" /\ codec.v < 5)
            => codec.dec = DecRes("ok", UnsupportedVersion, 0)
       /\ (codec.stage = "decoded" /\ codec.v >= 5 /\ Len(codec.bytes) >= 4)
            => codec.dec = DecRes("ok", Some(FromLE(SubSeq(codec.bytes, 1, 4))), 4)

\* C16: in the packets of update_leds, update_zone_leds, update_mode and
\* add_segment the u32 that leads the payload equals the payload length of
\* the header; an OpenRgbPacket is that u32, worth the length of the inner
\* encoding plus 4, followed by the inner encoding, and what is on the wire
\* of it is its beginning.
C16_LengthPrefixed ==
    \A p \in Procs :
        (/\ op[p].name \in {"update_leds", "update_zone_leds", "update_mode",
                            "add_segment"}
         /\ Len(wrote[p]) >= HEADER_SIZE + 4)
        => /\ FromLE(SubSeq(wrote[p], HEADER_SIZE + 1, HEADER_SIZE + 4))
              = FromLE(SubSeq(wrote[p], 13, 16))
           /\ (stream_kind = "Stream2" /\ Len(wrote[p]) > HEADER_SIZE + 4)
              => LET payload == op[p].data.bytes
                 IN /\ Drop(wrote[p], HEADER_SIZE)
                       = Take(payload, Len(wrote[p]) - HEADER_SIZE)
                    /\ FromLE(SubSeq(payload, 1, 4)) = Len(Drop(payload, 4)) + 4
                    /\ (op[p].name = "update_leds"
                        => Drop(payload, 4) = SerColors(<<ColorA, ColorB>>).bytes)
                    /\ (op[p].name = "update_zone_leds"
                        => Drop(payload, 4)
                           = LE(ZoneArg, 4) \o SerColors(<<ColorA>>).bytes)

\* update_zone_leds has written its packet on either stream
C16_Witness ==
    /\ pc[1] = "done"
    /\ op[1].name = "update_zone_leds"
    /\ res[1].kind = "Ok"
    /\ Len(wrote[1]) = HEADER_SIZE + 14
    /\ FromLE(SubSeq(wrote[1], HEADER_SIZE + 1, HEADER_SIZE + 4)) = 14

\* C17: a string of L bytes (L + 1 fits a u16) is encoded as the u16 L + 1,
\* its bytes and a 0 byte ("test": 05 00 't' 'e' 's' 't' 00); decoding reads
\* the u16 count n and n bytes, drops the last one, and returns the rest as
\* the string, or a ProtocolError when the rest is not valid UTF-8.
C17_StringCodec ==
    (codec.stage # "none" /\ codec.t = "String")
    => /\ (/\ codec.origin # "raw"
           /\ codec.stage # "value"
           /\ Len(codec.val) + 1 < U16_MOD)
            => /\ codec.enc.ok
               /\ codec.enc.bytes
                  = LE(Len(codec.val) + 1, 2) \o codec.val \o <<0>>
               /\ (codec.val = StrTest
                   => codec.enc.bytes = <<5, 0, 116, 101, 115, 116, 0>>)
       /\ (/\ codec.stage = "decoded"
           /\ Len(codec.bytes) >= 2
           /\ Len(codec.bytes) >= 2 + FromLE(SubSeq(codec.bytes, 1, 2)))
            => LET n == FromLE(SubSeq(codec.bytes, 1, 2))
                   rest == SubSeq(codec.bytes, 3, 1 + n)
               IN /\ codec.dec.used = 2 + n
                  /\ IF Utf8Valid(rest)
                     THEN codec.dec.st = "ok" /\ codec.dec.val = rest
                     ELSE codec.dec.st = "bad"
                  /\ (rest \in { <<255, 254>>, <<195, 40>> }
                      => codec.dec.st = "bad")

\* a slice whose string bytes are not UTF-8 has been decoded
C17_Witness ==
    /\ codec.stage = "decoded"
    /\ codec.t = "String"
    /\ codec.origin = "raw"
    /\ codec.bytes = <<3, 0, 255, 254, 0>>
    /\ codec.dec.st = "bad"

\* C18: every u32 decodes to a DeviceType, a value no variant declares
\* (15 and above, e.g. 100) to Unknown and 8 to Headset; for ZoneType,
\* Direction, ColorMode and PacketId a value no variant declares is a
\* ProtocolError, a declared value decodes to its variant.
C18_UndeclaredDiscriminant ==
    (/\ codec.stage = "decoded"
     /\ codec.t \in {"DeviceType", "ZoneType", "Direction", "ColorMode", "PacketId"}
     /\ Len(codec.bytes) >= 4)
    => LET raw == FromLE(SubSeq(codec.bytes, 1, 4))
           d == codec.dec
       IN /\ codec.t = "DeviceType"
             => /\ d.st = "ok"
                /\ (raw >= 15 => d.val = "Unknown")
                /\ (raw = 8 => d.val = "Headset")
                /\ (raw < 15 => d.val = DeviceTypeTable[raw + 1])
          /\ codec.t = "ZoneType"
             => IF raw >= 3 THEN d.st = "bad"
                ELSE d.st = "ok" /\ d.val = ZoneTypeTable[raw + 1]
          /\ codec.t = "ColorMode"
             => IF raw >= 4 THEN d.st = "bad"
                ELSE d.st = "ok" /\ d.val = ColorModeTable[raw + 1]
          /\ codec.t = "Direction"
             => IF raw >= 6 THEN d.st = "bad"
                ELSE d.st = "ok" /\ d.val = DirectionTable[raw + 1]
          /\ codec.t = "PacketId"
             => IF raw \in PacketIdValues THEN d.st = "ok" /\ d.val = raw
                ELSE d.st = "bad"

\* the value 100 has been decoded as a DeviceType
C18_Witness ==
    /\ codec.stage = "decoded"
    /\ codec.t = "DeviceType"
    /\ codec.bytes = <<100, 0, 0, 0>>
    /\ codec.dec = DecRes("ok", "Unknown", 4)

\* C19: a mode flag set is written as one u32 LE holding the OR of the bits
\* of its flags (HasDirection|HasSpeed|HasBrightness is 31); a u32 with a
\* bit above bit 9 is a ProtocolError, and a u32 with bits 0..9 only decodes
\* to the set of exactly the flags whose bit is set (154 is HasDirectionLR,
\* HasDirectionHV, HasBrightness, HasRandomColor).
C19_ModeFlagBits ==
    /\ (/\ codec.stage = "encoded"
        /\ codec.t = "FlagSet<ModeFlag>")
       => /\ codec.enc.ok
          /\ ~codec.enc.panic
          /\ Len(codec.enc.bytes) = 4
          /\ \A s \in SingleFlags :
                HasBit(FromLE(codec.enc.bytes), ModeFlagBits[s])
                <=> s \in codec.val
          /\ FromLE(codec.enc.bytes) < 1024
          /\ (codec.val = FlagSetOf({"HasDirection", "HasSpeed", "HasBrightness"})
               => codec.enc.bytes = <<31, 0, 0, 0>>)
    /\ (/\ codec.stage = "decoded"
        /\ codec.t = "FlagSet<ModeFlag>"
        /\ Len(codec.bytes) >= 4)
       => LET raw == FromLE(SubSeq(codec.bytes, 1, 4))
          IN IF raw >= 1024 THEN codec.dec.st = "bad"
             ELSE /\ codec.dec.st = "ok"
                  /\ \A s \in SingleFlags :
                        s \in codec.dec.val <=> HasBit(raw, ModeFlagBits[s])
                  /\ (raw = 154
                       => codec.dec.val
                          = {"HasDirectionLR", "HasDirectionHV",
                             "HasBrightness", "HasRandomColor"})

\* the value 154 has been decoded as a flag set
C19_Witness ==
    /\ codec.stage = "decoded"
    /\ codec.t = "FlagSet<ModeFlag>"
    /\ codec.bytes = <<154, 0, 0, 0>>
    /\ codec.dec.st = "ok"
    /\ "HasRandomColor" \in codec.dec.val

\* C20: a decoder handed a byte slice that ends before the value is complete
\* returns an error, it does not panic; and the cursor of a decoder stays
\* between 0 and the length of the slice.
C20_ShortSliceIsError ==
    (/\ codec.stage = "decoded"
     /\ codec.t \in {"u8", "u16", "u32", "i32", "String", "Vec<Color>",
                     "(u32, Vec<Color>)", "[u8; 3]", "Color", "DeviceType",
                     "ZoneType", "ColorMode", "Direction", "PacketId",
                     "SegmentData", "ZoneData", "ModeData", "ControllerData",
                     "Vec<u8>", "(u32, Vec<PluginData>)"})
    => /\ codec.dec.used >= 0
       /\ codec.dec.used <= Len(codec.bytes)
       /\ codec.incomplete => codec.dec.st \in {"short", "eof", "bad"}

\* C21: below protocol version 4 a SegmentData is neither decoded nor
\* encoded: both return a ProtocolError, the decoder consumes no byte and
\* the encoder writes none; from version 4 on the name, the segment type
\* (i32), the start index (u32) and the LED count (u32) follow one another
\* (a name whose bytes and terminator the u16 count can tell; C27 is about
\* the longer ones).
C21_SegmentVersionGate ==
    /\ (codec.stage = "encoded" /\ codec.t = "SegmentData")
       => IF codec.v < 4
          THEN ~codec.enc.ok /\ ~codec.enc.panic /\ codec.enc.bytes = <<>>
          ELSE Len(codec.val.name) + 1 < U16_MOD
               => /\ codec.enc.ok
                  /\ codec.enc.bytes
                     = LE(Len(codec.val.name) + 1, 2) \o codec.val.name \o <<0>>
                       \o LEI32(codec.val.seg_type) \o LE(codec.val.start_idx, 4)
                       \o LE(codec.val.led_count, 4)
    /\ (codec.stage = "decoded" /\ codec.t = "SegmentData")
       => IF codec.v < 4
          THEN codec.dec.st = "bad" /\ codec.dec.used = 0
          ELSE codec.bytes = SegmentBytes
               => codec.dec = DecRes("ok", [name |-> StrTest, seg_type |-> 1,
                                            start_idx |-> 0, led_count |-> 4],
                                     Len(SegmentBytes))

\* the bytes of a segment have been handed to the decoder at version 3
C21_Witness ==
    /\ codec.stage = "decoded"
    /\ codec.t = "SegmentData"
    /\ codec.v = 3
    /\ codec.bytes = SegmentBytes
    /\ codec.dec.st = "bad"

\* C23: a zone decoded without error has read, after name, type, minimum,
\* maximum and count, a u16 matrix length; when it is 0 the zone has no
\* matrix and no matrix byte is consumed; otherwise the height, the width
\* and height * width cells (u32) have been read, and the matrix has height
\* rows and width columns, cell (r, c) being cell r * width + c of the
\* bytes (length 32, height 2, width 3, cells 0..5: [[0, 1, 2], [3, 4, 5]]).
C23_ZoneMatrix ==
    (/\ codec.stage = "decoded"
     /\ codec.t = "ZoneData"
     /\ codec.dec.st = "ok")
    => LET b == codec.bytes
           at == 2 + FromLE(SubSeq(b, 1, 2)) + 16
           len == FromLE(SubSeq(b, at + 1, at + 2))
           height == FromLE(SubSeq(b, at + 3, at + 6))
           width == FromLE(SubSeq(b, at + 7, at + 10))
           m == codec.dec.val.matrix
           tail == Len(ZoneTail(codec.v))
       IN /\ len = 0 => ~m.some /\ codec.dec.used = at + 2 + tail
          /\ len # 0
             => /\ m.some
                /\ m.num_rows = height
                /\ m.num_columns = width
                /\ Len(m.rows) = height
                /\ \A r \in 1..height :
                     /\ Len(m.rows[r]) = width
                     /\ \A c \in 1..width :
                          m.rows[r][c]
                          = FromLE(SubSeq(b, at + 11 + 4 * ((r - 1) * width + (c - 1)),
                                          at + 14 + 4 * ((r - 1) * width + (c - 1))))
                /\ codec.dec.used = at + 10 + 4 * height * width + tail
          /\ (b = ZoneMatrix(codec.v)
              => m.rows = << <<0, 1, 2>>, <<3, 4, 5>> >>)

\* the zone of test_read_002 has been decoded with its matrix
C23_Witness ==
    /\ codec.stage = "decoded"
    /\ codec.t = "ZoneData"
    /\ codec.bytes = ZoneMatrix(codec.v)
    /\ codec.dec.st = "ok"
    /\ codec.dec.val.matrix.some
    /\ codec.dec.val.matrix.rows[2][1] = 3

\* C24: decoding a mode reads every numeric field whatever the flags are,
\* and exposes speed_min, speed_max and speed exactly when HasSpeed is set,
\* brightness_min, brightness_max and brightness exactly when HasBrightness
\* is set and the version is at least 3, the direction exactly when
\* HasDirection is set; a direction that is not declared is a ProtocolError
\* when HasDirection is set and is ignored otherwise; with flags 0 all of
\* them are absent although the bytes hold other values than 0.
C24_ModeFieldsByFlag ==
    (/\ codec.stage = "decoded"
     /\ codec.t = "ModeData"
     /\ codec.origin = "raw")
    => LET flags == FromLE(SubSeq(codec.bytes, 12, 15))
           has_speed == HasBit(flags, 1)
           has_brightness == HasBit(flags, 16)
           has_direction == HasBit(flags, 2) /\ HasBit(flags, 4) /\ HasBit(flags, 8)
           d == codec.dec
       IN /\ \A cs \in ModeWireColors :
               codec.bytes = ModeWire(flags, 100, cs, codec.v >= 3)
               => d.st = (IF has_direction THEN "bad" ELSE "ok")
          /\ \A cs \in ModeWireColors :
               codec.bytes = ModeWire(flags, 4, cs, codec.v >= 3) => d.st = "ok"
          /\ d.used = Len(codec.bytes)
          /\ d.st = "ok"
             => /\ (d.val.speed_min # NONE) = has_speed
                /\ (d.val.speed_max # NONE) = has_speed
                /\ (d.val.speed # NONE) = has_speed
                /\ (d.val.brightness_min # NONE) = (has_brightness /\ codec.v >= 3)
                /\ (d.val.brightness_max # NONE) = (has_brightness /\ codec.v >= 3)
                /\ (d.val.brightness # NONE) = (has_brightness /\ codec.v >= 3)
                /\ (d.val.direction # NONE) = has_direction
                /\ d.val.flags = flags

\* a mode with flags 0 and an undeclared direction has been decoded: the
\* direction is ignored and every field of a flag is absent
C24_Witness ==
    /\ codec.stage = "decoded"
    /\ codec.t = "ModeData"
    /\ codec.v = 4
    /\ codec.bytes = ModeWire(0, 100, <<>>, TRUE)
    /\ codec.dec.st = "ok"
    /\ codec.dec.val.speed = NONE
    /\ codec.dec.val.direction = NONE

\* C25: the fields of a mode are on the wire in the order name, value,
\* flags, speed_min, speed_max, brightness_min, brightness_max (from
\* version 3), colors_min, colors_max, speed, brightness (from version 3),
\* direction, color_mode, colors: decoding bytes laid out in that order
\* gives every field the wire value of its name (speed 51 and brightness
\* 512 in the test vector), and encoding writes the fields in that order.
C25_ModeFieldOrder ==
    /\ (/\ codec.stage = "decoded"
        /\ codec.t = "ModeData"
        /\ codec.bytes = ModeWire(31, 4, <<ColorA, ColorB>>, codec.v >= 3))
       => /\ codec.dec.st = "ok"
          /\ codec.dec.val.speed_min = 10
          /\ codec.dec.val.speed_max = 1000
          /\ codec.dec.val.colors_min = 0
          /\ codec.dec.val.colors_max = 256
          /\ codec.dec.val.speed = 51
          /\ codec.dec.val.direction = 4
          /\ codec.dec.val.color_mode = 1
          /\ codec.v >= 3 => /\ codec.dec.val.brightness_min = 1
                             /\ codec.dec.val.brightness_max = 1024
                             /\ codec.dec.val.brightness = 512
    /\ (/\ codec.stage = "encoded"
        /\ codec.t = "ModeData"
        /\ codec.enc.ok
        /\ ~codec.enc.panic)
       => LET m == codec.val
          IN codec.enc.bytes
             = LE(Len(m.name) + 1, 2) \o m.name \o <<0>> \o LEI32(m.value)
               \o LE(m.flags, 4)
               \o LE(UnwrapOrDefault(m.speed_min), 4)
               \o LE(UnwrapOrDefault(m.speed_max), 4)
               \o (IF codec.v >= 3
                   THEN LE(UnwrapOrDefault(m.brightness_min), 4)
                        \o LE(UnwrapOrDefault(m.brightness_max), 4)
                   ELSE <<>>)
               \o LE(UnwrapOrDefault(m.colors_min), 4)
               \o LE(UnwrapOrDefault(m.colors_max), 4)
               \o LE(UnwrapOrDefault(m.speed), 4)
               \o (IF codec.v >= 3 THEN LE(UnwrapOrDefault(m.brightness), 4)
                   ELSE <<>>)
               \o LE(UnwrapOrDefault(m.direction), 4)
               \o LE(UnwrapOrDefault(m.color_mode), 4)
               \o SerColors(m.colors).bytes

\* C26: an array [T; N] has the wire form of a sequence in both directions:
\* encoding writes the count N as a u16 and the N elements, decoding
\* accepts that form, so that decoding the encoding of an array gives the
\* array back and consumes exactly the bytes that were written.
C26_ArrayWireForm ==
    /\ (codec.stage = "encoded" /\ codec.t = "[u8; 3]")
       => /\ codec.enc.ok
          /\ codec.enc.bytes = LE(3, 2) \o codec.val
    /\ (/\ codec.stage = "decoded"
        /\ codec.t = "[u8; 3]"
        /\ codec.origin = "value")
       => /\ codec.dec.st = "ok"
          /\ codec.dec.val = codec.val
          /\ codec.dec.used = Len(codec.bytes)

\* C27: encoding a list of more than 65535 elements, or a string whose
\* bytes and terminator are more than 65535, returns an error: no encoder
\* writes the length modulo 2^16 as the count, and none panics on the
\* arithmetic of the length.
C27_OversizeIsError ==
    (/\ codec.stage = "encoded"
     /\ \/ codec.t = "Vec<u8>" /\ Len(codec.val) > U16_MOD - 1
        \/ codec.t = "String" /\ Len(codec.val) + 1 > U16_MOD - 1
        \/ /\ codec.t = "SegmentData" /\ codec.v >= 4
           /\ Len(codec.val.name) + 1 > U16_MOD - 1)
    => /\ ~codec.enc.panic
       /\ ~codec.enc.ok

\* C22: in every controller decoded without error the i-th mode has index
\* i and the i-th zone has id i, counted from 0, whatever the payload
\* holds; and the controller get_controller(c) returns has id c.  The
\* first part speaks of the controllers a session returns, the second of
\* the controllers decoded from a slice.
C22_PositionsAssigned ==
    /\ \A p \in Callers :
          (/\ pc[p] = "done"
           /\ op[p].name = "get_controller"
           /\ res[p].kind = "Ok")
          => LET c == res[p].val
             IN /\ \A i \in 1..Len(c.modes) : c.modes[i].index = i - 1
                /\ \A i \in 1..Len(c.zones) : c.zones[i].id = i - 1
                /\ Len(c.modes) = Len(c.zones)
                /\ Len(c.modes) \in {1, 3}
                /\ c.id = op[p].dev
    /\ (/\ codec.stage = "decoded"
        /\ codec.t = "ControllerData"
        /\ codec.dec.st = "ok")
       => LET c == codec.dec.val
          IN /\ \A i \in 1..Len(c.modes) : c.modes[i].index = i - 1
             /\ \A i \in 1..Len(c.zones) : c.zones[i].id = i - 1
             /\ \A nm \in ControllerSizes, nz \in ControllerSizes :
                  codec.bytes = ControllerWire(nm, nz, codec.v)
                  => Len(c.modes) = nm /\ Len(c.zones) = nz

\* get_controller(1) has returned a controller of three modes and three
\* zones over Stream2
C22_Witness ==
    /\ stream_kind = "Stream2"
    /\ pc[1] = "done"
    /\ op[1].name = "get_controller"
    /\ op[1].dev = 1
    /\ res[1].kind = "Ok"
    /\ res[1].val.id = 1
    /\ Len(res[1].val.modes) = 3
    /\ res[1].val.modes[3].index = 2
    /\ Len(res[1].val.zones) = 3
    /\ res[1].val.zones[3].id = 2

\* C28: while the transport works and no call has been dropped, whenever
\* no operation of the negotiated session holds the lock the transport
\* stands at the start of a packet: no packet waits with a part of it read.
C28_PacketBoundary ==
    (/\ session = "Negotiated"
     /\ alive /\ ~eof
     /\ \A c \in Callers : abandoned_at[c] = ""
     /\ lock_owner = 0
     /\ \A c \in Callers : pc[c] \in {"idle", "done"})
    => ~packets.mid

\* C29: with a server that answers every request, every call of every
\* caller of a shared session returns, however often the other callers
\* call again, and a caller whose call has returned does not hold the
\* session lock: so after an error of the write, of the header check and
\* of the payload decode.
C29_Progress ==
    [](\A c \in Callers :
         /\ pc[c] = "done" => lock_owner # c
         /\ pc[c] \in {"wait", "whdr", "wpay", "rhdr", "rpay"} => <>(pc[c] = "done"))

\* three callers call without end; each has returned from an error: one of
\* the header check, one of the payload decode and, the transport having
\* failed then, one of the write; the lock is free
C29_Witness ==
    \E c, d, e \in Callers :
       /\ scenario = "progress"
       /\ pc[c] = "done" /\ res[c] = ProtocolError /\ nread[c] = 16
       /\ pc[d] = "done" /\ res[d] = ProtocolError /\ nread[d] = 18
       /\ pc[e] = "done" /\ res[e] = IoError /\ nread[e] = 0
       /\ Len(wrote[e]) < HEADER_SIZE
       /\ lock_owner = 0
       /\ waiters = <<>>

\* the sum of the leds_count of the z zones before zone z
RECURSIVE LedsBefore(_, _)
LedsBefore(zones, z) ==
    IF z = 0 THEN 0 ELSE zones[z].leds_count + LedsBefore(zones, z - 1)

\* the command names a zone, and a segment, that the controller has
Covers(zones, c) ==
    CASE c.kind = "Zone" -> c.zone_id < Len(zones)
      [] c.kind = "Segment" ->
           /\ c.zone_id < Len(zones)
           /\ zones[c.zone_id + 1].segments.some
           /\ c.segment_id < Len(zones[c.zone_id + 1].segments.val)
      [] OTHER -> TRUE

\* where the command writes, and the colors it writes
WriteAt(zones, c) ==
    CASE c.kind = "Controller" -> 0
      [] c.kind = "Zone" -> LedsBefore(zones, c.zone_id)
      [] c.kind = "Segment" ->
           LedsBefore(zones, c.zone_id)
           + zones[c.zone_id + 1].segments.val[c.segment_id + 1].start_idx
      [] c.kind = "Single" -> c.led_id
Written(zones, c) ==
    IF c.kind = "Zone"
    THEN SubSeq(c.colors, 1, Min(Len(c.colors), zones[c.zone_id + 1].leds_count))
    ELSE c.colors
WriteEnd(zones, c) == WriteAt(zones, c) + Len(Written(zones, c))

SetMax(S) == CHOOSE m \in S : \A x \in S : x <= m

\* the commands of the log that write LED i (counted from 1)
Writers(i) ==
    { k \in 1..Len(command.log) :
        /\ Covers(command.zones, command.log[k].cmd)
        /\ WriteAt(command.zones, command.log[k].cmd) < i
        /\ i <= WriteEnd(command.zones, command.log[k].cmd) }

\* C30: after any sequence of add_command calls a command fails exactly
\* when it names a zone or segment the controller lacks, and the buffer is
\* the overlay of the others: as long as the farthest write, each LED
\* holding the color of the last command that wrote it, black where none
\* did; and the buffer never got shorter.
C30_Overlay ==
    command.stage = "building" =>
       /\ \A k \in 1..Len(command.log) :
            /\ (command.log[k].res.kind = "Ok")
                 <=> Covers(command.zones, command.log[k].cmd)
            /\ k > 1 => command.log[k].len >= command.log[k - 1].len
       /\ Len(command.colors) =
            SetMax({0} \cup { WriteEnd(command.zones, command.log[k].cmd) :
                               k \in { j \in 1..Len(command.log) :
                                         Covers(command.zones, command.log[j].cmd) } })
       /\ \A i \in 1..Len(command.colors) :
            command.colors[i] =
               IF Writers(i) = {} THEN ColorDefault
               ELSE Written(command.zones, command.log[SetMax(Writers(i))].cmd)
                      [i - WriteAt(command.zones, command.log[SetMax(Writers(i))].cmd)]

\* three commands were added: one LED was written twice, one LED below the
\* length was written by none, and a zone command after the first zone was
\* cut to the zone's length
C30_Witness ==
    /\ command.stage = "building"
    /\ Len(command.log) = 3
    /\ \E i \in 1..Len(command.colors) : Cardinality(Writers(i)) >= 2
    /\ \E i \in 1..Len(command.colors) : Writers(i) = {}
    /\ \E k \in 1..3 :
         /\ command.log[k].cmd.kind = "Zone"
         /\ command.log[k].res.kind = "Ok"
         /\ command.log[k].cmd.zone_id > 0
         /\ Len(Written(command.zones, command.log[k].cmd))
              < Len(command.log[k].cmd.colors)

====
